---- MODULE Spec2Model ----
(***************************************************************************)
(* Trading board: the order lifecycle engine (matching engine, order       *)
(* service, unit of work) as a state machine.                              *)
(*                                                                         *)
(* Money is fixed point: one unit of money is 1e-9 of the base currency,   *)
(* so the tolerance 1e-9 of _validate_balance is exactly one unit.  Prices *)
(* and balances are integers in that unit; an average price is a reduced   *)
(* fraction <<numerator, denominator>>.  Arithmetic is exact.              *)
(* An optional value (Python's None or a value) is a sequence of length 0  *)
(* or 1.                                                                   *)
(***************************************************************************)
EXTENDS Integers, Sequences, FiniteSets, TLC

VARIABLES
    accounts,     \* committed rows of table accounts: user_id -> optional row
    positions,    \* committed rows of table positions: <<user_id, instrument_id>> -> optional row
    orders,       \* committed rows of table orders: order_id -> row
    executions,   \* the execution stream (append only)
    clock,        \* the value the next call of clock() returns
    pc,           \* per submit task: where it is suspended
    request,      \* per task: the order request it was called with
    snapshot,     \* per task: the book snapshot it was called with
    now,          \* per task: the clock value read at entry
    account,      \* per task: the result of get_account
    existing_position, \* per task: the result of get_position
    writes,       \* per task: the uncommitted writes of its transaction
    result,       \* per task: "none" while running, "ok", or the exception raised
    before,       \* per task: the committed stores and stream when submit was called
    mOrder,       \* matching engine alone: the order given to match
    mBook,        \* matching engine alone: the book given to match
    mResult,      \* matching engine alone: the optional result of the latest call of match
    mHistory,     \* matching engine alone: the results of the calls of match so far
    config,       \* market data: how the service and its feeds were built
    wall,         \* market data: the value clock.now() returns, in seconds
    next_emission, \* MarketDataService._next_emission: feed -> optional time
    last_emitted, \* MarketDataService._last_emitted: feed -> optional tick
    simulator,    \* per feed: how many values its simulator has produced
    runner,       \* MarketDataRunner.run: "ready", "pumping", "sleeping" or "stopped"
    pump_timestamp, \* pump_once: timestamp
    emissions,    \* pump_once: the emissions not completed yet, the current one first
    call,         \* pump_once: which retry_async call of the current emission runs
    attempt,      \* retry_async: attempt
    delays,       \* retry_async: the sleeps of the running call so far
    awaiting,     \* the invoked publisher: "start", or "hset" once its XADD is done
    effects,      \* the completed writes to the durable store and the streams, in order
    book_hash,    \* Redis hashes marketdata:book:<instrument>: optional mapping
    book_read,    \* trading: the outcome of the latest get_order_book
    raised,       \* market data: the exception that left run(), if any
    pumps,        \* market data: the times at which run() called pump_once
    user_rows,    \* auth: the rows of table users, in insertion order
    account_rows, \* auth: the rows of table accounts written by the auth service
    session_keys, \* Redis keys auth_session:<token>: optional value and deadline
    auth_time,    \* auth: the wall clock, in ticks
    tokens_drawn, \* auth: how many tokens uuid4 has returned
    issued,       \* per token: the session that issue returned, if it did
    revoked,      \* the tokens that revoke was called on
    handlers,     \* per auth request task: where it is suspended and its locals
    last,         \* auth: the latest response and what its handler wrote
    api,          \* trading: the POST /orders request in progress or answered
    ladder,       \* order book generator alone: its inputs and what build returned
    instances,    \* simulators alone: per instance its generator, value and paths
    orders_table, \* orders repository alone: the rows of table orders and the latest record persisted
    run,          \* MarketDataRunner.run alone: its arguments, position, count and what it called
    rate_feed     \* one feed pumped alone: its simulator, its generators and the outcome

tradingVars == <<accounts, positions, orders, executions, clock, pc, request,
                 snapshot, now, account, existing_position, writes, result, before>>
matchVars == <<mOrder, mBook, mResult, mHistory>>
marketVars == <<config, wall, next_emission, last_emitted, simulator, runner,
                pump_timestamp, emissions, call, attempt, delays, awaiting, effects,
                book_hash, book_read, raised, pumps>>
unitVars == <<instances, orders_table, run, rate_feed>>
authVars == <<user_rows, account_rows, session_keys, auth_time, tokens_drawn, issued,
              revoked, handlers, last, api>>
vars == <<accounts, positions, orders, executions, clock, pc, request,
          snapshot, now, account, existing_position, writes, result, before,
          mOrder, mBook, mResult, mHistory,
          config, wall, next_emission, last_emitted, simulator, runner,
          pump_timestamp, emissions, call, attempt, delays, awaiting, effects,
          book_hash, book_read, raised, pumps,
          user_rows, account_rows, session_keys, auth_time, tokens_drawn, issued,
          revoked, handlers, last, api, ladder, instances, orders_table, run, rate_feed>>

----------------------------------------------------------------------------
(* Optional values *)

None == <<>>
Some(x) == <<x>>
IsSome(o) == Len(o) = 1
Get(o) == o[1]

Min(a, b) == IF a <= b THEN a ELSE b
Max(a, b) == IF a >= b THEN a ELSE b

RECURSIVE Gcd(_, _)
Gcd(a, b) == IF b = 0 THEN a ELSE Gcd(b, a % b)

\* The fraction n/d (d > 0), reduced: the value of a float division.
Frac(n, d) == LET g == Gcd(n, d) IN <<n \div g, d \div g>>

----------------------------------------------------------------------------
(* Bounds *)

\* Most levels on one side of a book given to the matching engine alone.
MaxLevels == 2
\* Largest order quantity.
MaxQty == 3
\* Number of submit tasks (one per HTTP request).
MaxTasks == 2

Prices == {1, 2, 3}
LevelQuantities == {1, 2}

----------------------------------------------------------------------------
(* Domain model: trading/domain/models.py *)

OrderSide == {"BUY", "SELL"}
OrderType == {"MARKET", "LIMIT"}
OrderStatus == {"NEW", "PARTIALLY_FILLED", "FILLED", "CANCELLED"}

\* ListedInstrumentBook._validate_depth: positive prices, sorted (ties allowed),
\* positive quantities.
ValidateDepth(levels, descending) ==
    /\ \A i \in 1..Len(levels) : levels[i].price > 0
    /\ \A i \in 2..Len(levels) :
           IF descending THEN ~(levels[i].price > levels[i-1].price)
                         ELSE ~(levels[i].price < levels[i-1].price)
    /\ \A i \in 1..Len(levels) : levels[i].quantity > 0

Level == [price : Prices, quantity : LevelQuantities]

RECURSIVE SeqsUpTo(_, _)
SeqsUpTo(S, n) ==
    IF n = 0 THEN {<<>>}
    ELSE LET shorter == SeqsUpTo(S, n - 1)
         IN shorter \cup {Append(s, x) : s \in {t \in shorter : Len(t) = n - 1}, x \in S}

\* Every book ListedInstrumentBook accepts, within the bounds.
ListedInstrumentBook ==
    {[instrument_id |-> "AAA", bids |-> b, asks |-> a] :
        b \in {s \in SeqsUpTo(Level, MaxLevels) : ValidateDepth(s, TRUE)},
        a \in {s \in SeqsUpTo(Level, MaxLevels) : ValidateDepth(s, FALSE)}}

\* MarketOrderRequest and LimitOrderRequest (quantity > 0, limit_price > 0).
OrderRequests(users, instruments) ==
    {[user_id |-> u, instrument_id |-> i, side |-> s, quantity |-> q,
      order_type |-> "MARKET", limit_price |-> None] :
        u \in users, i \in instruments, s \in OrderSide, q \in 1..MaxQty}
    \cup
    {[user_id |-> u, instrument_id |-> i, side |-> s, quantity |-> q,
      order_type |-> "LIMIT", limit_price |-> Some(l)] :
        u \in users, i \in instruments, s \in OrderSide, q \in 1..MaxQty, l \in Prices}

----------------------------------------------------------------------------
(* Matching engine: trading/domain/matching.py *)

\* The two closures price_condition of match, one per side.
price_condition_as_sides_swapped(order, price) ==
    IF order.side = "BUY"
    THEN \/ order.order_type = "MARKET"
         \/ (IsSome(order.limit_price) /\ price >= Get(order.limit_price))
    ELSE \/ order.order_type = "MARKET"
         \/ (IsSome(order.limit_price) /\ price <= Get(order.limit_price))

price_condition(order, price) ==
    IF order.side = "BUY"
    THEN \/ order.order_type = "MARKET"
         \/ (IsSome(order.limit_price) /\ price <= Get(order.limit_price))
    ELSE \/ order.order_type = "MARKET"
         \/ (IsSome(order.limit_price) /\ price >= Get(order.limit_price))

\* The side of the book an order crosses.
OppositeLevels(order, book) ==
    IF order.side = "BUY" THEN book.asks ELSE book.bids

\* fill_qty = min(available, remaining)
fill_qty_as_whole_level(available, remaining) == available

fill_qty(available, remaining) == Min(available, remaining)

\* The for loop of match from level i on.
RECURSIVE MatchLoop(_, _, _, _, _)
MatchLoop(order, levels, i, remaining, fills) ==
    IF i > Len(levels) \/ remaining <= 0
    THEN [fills |-> fills, residual |-> remaining]
    ELSE IF ~price_condition(order, levels[i].price)
    THEN MatchLoop(order, levels, i + 1, remaining, fills)
    ELSE LET q == fill_qty(levels[i].quantity, remaining)
         IN MatchLoop(order, levels, i + 1, remaining - q,
                      Append(fills, [price |-> levels[i].price, quantity |-> q]))

Reverse(s) == [i \in 1..Len(s) |-> s[Len(s) + 1 - i]]

\* MatchingEngine.match: (fills, residual).
match_as_worst_level_first(order, book) ==
    MatchLoop(order, Reverse(OppositeLevels(order, book)), 1, order.quantity, <<>>)

match(order, book) ==
    MatchLoop(order, OppositeLevels(order, book), 1, order.quantity, <<>>)

\* The book object after match(order, book) returns: match reads book.bids or
\* book.asks and builds a new list of fills; it assigns to no field of the
\* book or of the engine (which has none).
book_after_match_as_level_popped(order, book) ==
    IF match(order, book).fills = <<>>
    THEN book
    ELSE IF order.side = "BUY"
         THEN [book EXCEPT !.asks = Tail(@)]
         ELSE [book EXCEPT !.bids = Tail(@)]

book_after_match(order, book) == book

RECURSIVE SumSeq(_, _)
SumSeq(s, i) == IF i > Len(s) THEN 0 ELSE s[i] + SumSeq(s, i + 1)

\* sum(fill.quantity for fill in fills)
filled_quantity(fills) == SumSeq([i \in 1..Len(fills) |-> fills[i].quantity], 1)

\* sum(fill.price * fill.quantity for fill in fills)
total_consideration(fills) ==
    SumSeq([i \in 1..Len(fills) |-> fills[i].price * fills[i].quantity], 1)

----------------------------------------------------------------------------
(* The world of the order service *)

\* alice has an account and a position, bob an account only, carol no account.
Users == {"alice", "bob", "carol"}
Instruments == {"AAA", "BBB"}
Tasks == 1..MaxTasks
PositionKeys == Users \X Instruments

\* The book snapshots a caller passes to submit (the last published ones).
Books ==
    {[instrument_id |-> "AAA",
      bids |-> <<[price |-> 2, quantity |-> 1], [price |-> 1, quantity |-> 2]>>,
      asks |-> <<[price |-> 3, quantity |-> 1], [price |-> 4, quantity |-> 1]>>],
     [instrument_id |-> "BBB",
      bids |-> <<[price |-> 1, quantity |-> 1]>>,
      asks |-> <<[price |-> 2, quantity |-> 1]>>]}

\* The order requests submitted: every order of alice on AAA for 1 to 3 units
\* with a limit of 2 or 3, and unit market orders of alice on BBB, of bob and
\* of carol.
SubmitRequests ==
    {r \in OrderRequests(Users, Instruments) :
        /\ r.quantity \in {1, 2, 3}
        /\ IsSome(r.limit_price) => Get(r.limit_price) \in {2, 3}
        /\ (r.user_id # "alice" \/ r.instrument_id # "AAA") =>
               (r.order_type = "MARKET" /\ r.quantity = 1)
        /\ r.user_id # "alice" => r.instrument_id = "AAA"
        /\ r.user_id = "carol" => r.side = "BUY"}

InitAccounts ==
    [u \in Users |->
        IF u = "carol" THEN None
        ELSE Some([user_id |-> u, cash_balance |-> 6, base_currency |-> "USD",
                   margin_allowed |-> FALSE, updated_at |-> 0])]

InitPositions ==
    [k \in PositionKeys |->
        IF k = <<"alice", "AAA">>
        THEN Some([user_id |-> "alice", instrument_id |-> "AAA", quantity |-> 2,
                   average_price |-> <<2, 1>>, updated_at |-> 0])
        ELSE None]

NoWrites == [account |-> None, position |-> None, order |-> None]

NoRequest ==
    [user_id |-> "carol", instrument_id |-> "AAA", side |-> "BUY", quantity |-> 1,
     order_type |-> "MARKET", limit_price |-> None]

NoBook == [instrument_id |-> "AAA", bids |-> <<>>, asks |-> <<>>]

NoOrders == [t \in Tasks |-> None]

NoBefore ==
    [accounts |-> InitAccounts, positions |-> InitPositions, orders |-> NoOrders,
     executions |-> <<>>]

----------------------------------------------------------------------------
(* Order service: trading/services/order_service.py *)

\* 1e-9 in _validate_balance, in money units.
Tolerance == 1

\* _validate_balance: TRUE iff InsufficientBalanceError is raised.
validate_balance_as_strict(acct, required_cash) ==
    required_cash >= acct.cash_balance + Tolerance

validate_balance(acct, required_cash) ==
    required_cash > acct.cash_balance + Tolerance

\* _validate_sell_quantity: TRUE iff InsufficientPositionError is raised.
validate_sell_quantity_as_off_by_one(order_request, position) ==
    LET position_qty == IF IsSome(position) THEN Get(position).quantity ELSE 0
    IN position_qty <= order_request.quantity

validate_sell_quantity(order_request, position) ==
    LET position_qty == IF IsSome(position) THEN Get(position).quantity ELSE 0
    IN position_qty < order_request.quantity

\* _apply_cash_mutation
apply_cash_mutation_as_sign_lost(acct, order_side, consideration, timestamp) ==
    IF consideration = 0
    THEN [acct EXCEPT !.updated_at = timestamp]
    ELSE [acct EXCEPT !.cash_balance = acct.cash_balance - consideration,
                      !.updated_at = timestamp]

apply_cash_mutation(acct, order_side, consideration, timestamp) ==
    IF consideration = 0
    THEN [acct EXCEPT !.updated_at = timestamp]
    ELSE LET delta == IF order_side = "BUY" THEN -consideration ELSE consideration
         IN [acct EXCEPT !.cash_balance = acct.cash_balance + delta,
                         !.updated_at = timestamp]

\* _apply_position_mutation: the new position record, or the exception raised.
apply_position_mutation_as_sell_adds(order_request, position, filled, consideration, timestamp) ==
    LET prior_qty == IF IsSome(position) THEN Get(position).quantity ELSE 0
        prior_avg == IF IsSome(position) THEN Get(position).average_price ELSE <<0, 1>>
    IN [raised |-> "none",
        record |-> [user_id |-> order_request.user_id,
                    instrument_id |-> order_request.instrument_id,
                    quantity |-> prior_qty + filled,
                    average_price |-> Frac(prior_avg[1] * prior_qty + consideration * prior_avg[2],
                                           prior_avg[2] * Max(prior_qty + filled, 1)),
                    updated_at |-> timestamp]]

apply_position_mutation(order_request, position, filled, consideration, timestamp) ==
    IF order_request.side = "BUY"
    THEN LET prior_qty == IF IsSome(position) THEN Get(position).quantity ELSE 0
             prior_avg == IF IsSome(position) THEN Get(position).average_price ELSE <<0, 1>>
             new_qty == prior_qty + filled
         IN [raised |-> "none",
             record |-> [user_id |-> order_request.user_id,
                         instrument_id |-> order_request.instrument_id,
                         quantity |-> new_qty,
                         average_price |->
                             Frac(prior_avg[1] * prior_qty + consideration * prior_avg[2],
                                  prior_avg[2] * Max(new_qty, 1)),
                         updated_at |-> timestamp]]
    ELSE IF ~IsSome(position) \/ filled > Get(position).quantity
    THEN [raised |-> "InsufficientPositionError", record |-> None]
    ELSE [raised |-> "none",
          record |-> [user_id |-> order_request.user_id,
                      instrument_id |-> order_request.instrument_id,
                      quantity |-> Get(position).quantity - filled,
                      average_price |-> Get(position).average_price,
                      updated_at |-> timestamp]]

\* _derive_status
derive_status_as_filled_on_any_fill(filled, residual) ==
    IF filled = 0 THEN "NEW" ELSE "FILLED"

derive_status(filled, residual) ==
    IF filled = 0 THEN "NEW"
    ELSE IF residual = 0 THEN "FILLED"
    ELSE "PARTIALLY_FILLED"

\* The OrderRecord submit builds.
order_record_as_average_price_defaulted(order_id, order_request, filled, consideration, residual, timestamp) ==
    [order_id |-> order_id,
     user_id |-> order_request.user_id,
     instrument_id |-> order_request.instrument_id,
     side |-> order_request.side,
     order_type |-> order_request.order_type,
     quantity |-> order_request.quantity,
     filled_quantity |-> filled,
     limit_price |-> order_request.limit_price,
     average_price |-> Some(Frac(consideration, Max(filled, 1))),
     status |-> derive_status(filled, residual),
     time_in_force |-> "GTC",
     created_at |-> timestamp,
     updated_at |-> timestamp]

order_record(order_id, order_request, filled, consideration, residual, timestamp) ==
    [order_id |-> order_id,
     user_id |-> order_request.user_id,
     instrument_id |-> order_request.instrument_id,
     side |-> order_request.side,
     order_type |-> order_request.order_type,
     quantity |-> order_request.quantity,
     filled_quantity |-> filled,
     limit_price |-> order_request.limit_price,
     average_price |-> IF filled > 0 THEN Some(Frac(consideration, filled)) ELSE None,
     status |-> derive_status(filled, residual),
     time_in_force |-> "GTC",
     created_at |-> timestamp,
     updated_at |-> timestamp]

\* The ExecutionEvent submit builds; execution_id is order_id followed by "-exec".
execution_event_as_price_not_averaged(order_id, order_request, filled, consideration, timestamp) ==
    [execution_id |-> <<order_id, "-exec">>,
     order_id |-> order_id,
     user_id |-> order_request.user_id,
     instrument_id |-> order_request.instrument_id,
     side |-> order_request.side,
     quantity |-> filled,
     price |-> Frac(consideration, 1),
     timestamp |-> timestamp]

execution_event(order_id, order_request, filled, consideration, timestamp) ==
    [execution_id |-> <<order_id, "-exec">>,
     order_id |-> order_id,
     user_id |-> order_request.user_id,
     instrument_id |-> order_request.instrument_id,
     side |-> order_request.side,
     quantity |-> filled,
     price |-> Frac(consideration, filled),
     timestamp |-> timestamp]

\* The synchronous section of submit between get_position and the first write:
\* the exception it raises, or "none".
Rejection(order_request, book, acct, position) ==
    IF order_request.side = "SELL" /\ validate_sell_quantity(order_request, position)
    THEN "InsufficientPositionError"
    ELSE IF /\ order_request.side = "BUY"
            /\ validate_balance(acct, total_consideration(match(order_request, book).fills))
    THEN "InsufficientBalanceError"
    ELSE "none"

DomainRejections ==
    {"OrderValidationError", "InsufficientPositionError", "InsufficientBalanceError"}

----------------------------------------------------------------------------
(* Unit of work on PostgreSQL: trading/infrastructure/uow.py.               *)
(* connection.transaction() is started with no isolation argument, so the  *)
(* transaction runs at the server default, READ COMMITTED: a SELECT (there  *)
(* is no FOR UPDATE) sees the rows committed when it runs and takes no      *)
(* lock; an INSERT .. ON CONFLICT DO UPDATE waits for the row lock of any   *)
(* uncommitted writer of the same row and holds it until its transaction    *)
(* ends.                                                                   *)

\* A task inside its unit of work.
Active(t) == pc[t] \notin {"idle", "done"}

\* AccountsRepository.get_account: the row this transaction sees.
get_account(t, user_id) ==
    IF IsSome(writes[t].account) /\ Get(writes[t].account).user_id = user_id
    THEN writes[t].account
    ELSE accounts[user_id]

\* PositionsRepository.get_position: the row this transaction sees.
get_position(t, user_id, instrument_id) ==
    IF /\ IsSome(writes[t].position)
       /\ Get(writes[t].position).user_id = user_id
       /\ Get(writes[t].position).instrument_id = instrument_id
    THEN writes[t].position
    ELSE positions[<<user_id, instrument_id>>]

\* Another transaction holds the row lock of the account row.
AccountRowLocked(t, user_id) ==
    \E s \in Tasks \ {t} :
        /\ Active(s)
        /\ IsSome(writes[s].account)
        /\ Get(writes[s].account).user_id = user_id

\* Another transaction holds the row lock of the position row.
PositionRowLocked(t, user_id, instrument_id) ==
    \E s \in Tasks \ {t} :
        /\ Active(s)
        /\ IsSome(writes[s].position)
        /\ Get(writes[s].position).user_id = user_id
        /\ Get(writes[s].position).instrument_id = instrument_id

\* upsert_account: INSERT .. ON CONFLICT (user_id) DO UPDATE SET cash_balance,
\* margin_allowed, updated_at.
upsert_account(table, snap) ==
    [table EXCEPT ![snap.user_id] =
        IF IsSome(@)
        THEN Some([Get(@) EXCEPT !.cash_balance = snap.cash_balance,
                                 !.margin_allowed = snap.margin_allowed,
                                 !.updated_at = snap.updated_at])
        ELSE Some(snap)]

\* upsert_position: INSERT .. ON CONFLICT (user_id, instrument_id) DO UPDATE SET
\* quantity, average_price, updated_at.
upsert_position(table, position) ==
    [table EXCEPT ![<<position.user_id, position.instrument_id>>] =
        IF IsSome(@)
        THEN Some([Get(@) EXCEPT !.quantity = position.quantity,
                                 !.average_price = position.average_price,
                                 !.updated_at = position.updated_at])
        ELSE Some(position)]

\* create_order: INSERT .. ON CONFLICT (order_id) DO UPDATE SET filled_quantity,
\* average_price, status, updated_at.
create_order_as_row_replaced(table, order) ==
    [table EXCEPT ![order.order_id] = Some(order)]

create_order(table, order) ==
    [table EXCEPT ![order.order_id] =
        IF IsSome(@)
        THEN Some([Get(@) EXCEPT !.filled_quantity = order.filled_quantity,
                                 !.average_price = order.average_price,
                                 !.status = order.status,
                                 !.updated_at = order.updated_at])
        ELSE Some(order)]

\* __aexit__: the committed tables after the unit of work of task t ends,
\* rolled back when an exception left the block and committed otherwise.
aexit(t, exc) ==
    IF exc
    THEN [accounts |-> accounts, positions |-> positions, orders |-> orders]
    ELSE [accounts |-> IF IsSome(writes[t].account)
                       THEN upsert_account(accounts, Get(writes[t].account))
                       ELSE accounts,
          positions |-> IF IsSome(writes[t].position)
                        THEN upsert_position(positions, Get(writes[t].position))
                        ELSE positions,
          orders |-> IF IsSome(writes[t].order)
                     THEN create_order(orders, Get(writes[t].order))
                     ELSE orders]

----------------------------------------------------------------------------
(* OrderService.submit, one action per suspension point *)

\* The statements of submit in program order: the awaits, and "validate" for
\* the synchronous section (sell check, match, balance check) between them.
SubmitSteps_as_late_validation ==
    <<"get_account", "get_position", "upsert_position", "upsert_account",
      "create_order", "publish", "validate", "commit">>

SubmitSteps ==
    <<"get_account", "get_position", "validate", "upsert_position",
      "upsert_account", "create_order", "publish", "commit">>

\* The awaits: each can fail with an infrastructure error.
IOSteps ==
    {"get_account", "get_position", "upsert_position", "upsert_account",
     "create_order", "publish", "commit"}

StepIndex(s) == CHOOSE i \in 1..Len(SubmitSteps) : SubmitSteps[i] = s

Fills(t) == match(request[t], snapshot[t]).fills
Residual(t) == match(request[t], snapshot[t]).residual
Filled(t) == filled_quantity(Fills(t))
Consideration(t) == total_consideration(Fills(t))

\* if filled_quantity > 0: guards upsert_position and publish.
Applies(t, s) == s \in {"upsert_position", "publish"} => Filled(t) > 0

\* The statement task t reaches after the one it is at.
NextStep(t) ==
    LET later == {i \in (StepIndex(pc[t]) + 1)..Len(SubmitSteps) : Applies(t, SubmitSteps[i])}
    IN SubmitSteps[CHOOSE i \in later : \A j \in later : i <= j]

Advance(t) == pc' = [pc EXCEPT ![t] = NextStep(t)]

\* submit returns or raises: its frame (the locals and the unit of work) is
\* gone, the caller holds its arguments and the outcome.
Leave(t, outcome) ==
    /\ pc' = [pc EXCEPT ![t] = "done"]
    /\ result' = [result EXCEPT ![t] = outcome]
    /\ UNCHANGED <<request, snapshot>>
    /\ now' = [now EXCEPT ![t] = 0]
    /\ account' = [account EXCEPT ![t] = None]
    /\ existing_position' = [existing_position EXCEPT ![t] = None]
    /\ writes' = [writes EXCEPT ![t] = NoWrites]
    /\ before' = [before EXCEPT ![t] = NoBefore]

\* An exception leaves the async with block: __aexit__ rolls back.
Raise(t, exc) ==
    /\ accounts' = aexit(t, TRUE).accounts
    /\ positions' = aexit(t, TRUE).positions
    /\ orders' = aexit(t, TRUE).orders
    /\ Leave(t, exc)

\* order_id = id_generator(); now = clock(); async with uow_factory() as uow.
\* Called while other submits may be in flight.
Submit(t) ==
    /\ pc[t] = "idle"
    /\ t > 1 => pc[t - 1] # "idle"
    /\ \E r \in SubmitRequests, b \in Books :
           /\ b.instrument_id = r.instrument_id
           /\ request' = [request EXCEPT ![t] = r]
           /\ snapshot' = [snapshot EXCEPT ![t] = b]
    /\ now' = [now EXCEPT ![t] = clock]
    /\ clock' = clock + 1
    /\ before' = [before EXCEPT ![t] =
                     [accounts |-> accounts, positions |-> positions,
                      orders |-> orders, executions |-> executions]]
    /\ pc' = [pc EXCEPT ![t] = SubmitSteps[1]]
    /\ UNCHANGED <<accounts, positions, orders, executions, account,
                   existing_position, writes, result, matchVars, authVars, ladder, unitVars, marketVars>>

\* submit called when no other submit is in flight.
SubmitAlone(t) ==
    /\ \A s \in Tasks : ~Active(s)
    /\ Submit(t)

\* account = await uow.accounts.get_account(user_id); raise if None.
GetAccount(t) ==
    /\ Active(t) /\ pc[t] = "get_account"
    /\ LET acct == get_account(t, request[t].user_id)
       IN IF ~IsSome(acct)
          THEN Raise(t, "OrderValidationError")
          ELSE /\ account' = [account EXCEPT ![t] = acct]
               /\ Advance(t)
               /\ UNCHANGED <<accounts, positions, orders, request, snapshot, now,
                              existing_position, writes, result, before>>
    /\ UNCHANGED <<executions, clock, matchVars, authVars, ladder, unitVars, marketVars>>

\* existing_position = await uow.positions.get_position(user_id, instrument_id)
GetPosition(t) ==
    /\ Active(t) /\ pc[t] = "get_position"
    /\ existing_position' = [existing_position EXCEPT ![t] =
           get_position(t, request[t].user_id, request[t].instrument_id)]
    /\ Advance(t)
    /\ UNCHANGED <<accounts, positions, orders, executions, clock, request,
                   snapshot, now, account, writes, result, before, matchVars, authVars, ladder, unitVars, marketVars>>

\* _validate_sell_quantity, match, _validate_balance.
Validate(t) ==
    /\ Active(t) /\ pc[t] = "validate"
    /\ LET rej == Rejection(request[t], snapshot[t], Get(account[t]), existing_position[t])
       IN IF rej # "none"
          THEN Raise(t, rej)
          ELSE /\ Advance(t)
               /\ UNCHANGED <<accounts, positions, orders, request, snapshot, now,
                              account, existing_position, writes, result, before>>
    /\ UNCHANGED <<executions, clock, matchVars, authVars, ladder, unitVars, marketVars>>

\* updated_position = _apply_position_mutation(..); await upsert_position(..)
UpsertPosition(t) ==
    /\ Active(t) /\ pc[t] = "upsert_position"
    /\ LET m == apply_position_mutation(request[t], existing_position[t], Filled(t),
                                        Consideration(t), now[t])
       IN IF m.raised # "none"
          THEN Raise(t, m.raised)
          ELSE /\ ~PositionRowLocked(t, request[t].user_id, request[t].instrument_id)
               /\ writes' = [writes EXCEPT ![t].position = Some(m.record)]
               /\ Advance(t)
               /\ UNCHANGED <<accounts, positions, orders, request, snapshot, now,
                              account, existing_position, result, before>>
    /\ UNCHANGED <<executions, clock, matchVars, authVars, ladder, unitVars, marketVars>>

\* await uow.accounts.upsert_account(updated_account)
UpsertAccount(t) ==
    /\ Active(t) /\ pc[t] = "upsert_account"
    /\ ~AccountRowLocked(t, request[t].user_id)
    /\ writes' = [writes EXCEPT ![t].account =
           Some(apply_cash_mutation(Get(account[t]), request[t].side,
                                    Consideration(t), now[t]))]
    /\ Advance(t)
    /\ UNCHANGED <<accounts, positions, orders, executions, clock, request,
                   snapshot, now, account, existing_position, result, before,
                   matchVars, authVars, ladder, unitVars, marketVars>>

\* await uow.orders.create_order(order_record)
CreateOrder(t) ==
    /\ Active(t) /\ pc[t] = "create_order"
    /\ writes' = [writes EXCEPT ![t].order =
           Some(order_record(t, request[t], Filled(t), Consideration(t),
                             Residual(t), now[t]))]
    /\ Advance(t)
    /\ UNCHANGED <<accounts, positions, orders, executions, clock, request,
                   snapshot, now, account, existing_position, result, before,
                   matchVars, authVars, ladder, unitVars, marketVars>>

\* await self._execution_publisher.publish(execution_event): XADD, outside
\* the database transaction.
Publish(t) ==
    /\ Active(t) /\ pc[t] = "publish"
    /\ executions' = Append(executions,
           execution_event(t, request[t], Filled(t), Consideration(t), now[t]))
    /\ Advance(t)
    /\ UNCHANGED <<accounts, positions, orders, clock, request, snapshot, now,
                   account, existing_position, writes, result, before, matchVars, authVars, ladder, unitVars, marketVars>>

\* return order_record: __aexit__ without exception commits.
Commit(t) ==
    /\ Active(t) /\ pc[t] = "commit"
    /\ accounts' = aexit(t, FALSE).accounts
    /\ positions' = aexit(t, FALSE).positions
    /\ orders' = aexit(t, FALSE).orders
    /\ Leave(t, "ok")
    /\ UNCHANGED <<executions, clock, matchVars, authVars, ladder, unitVars, marketVars>>

\* A store or stream operation, or the commit, raises: the exception leaves
\* the block (a failed commit commits nothing).
Fail(t) ==
    /\ Active(t) /\ pc[t] \in IOSteps
    /\ Raise(t, "InfrastructureError")
    /\ UNCHANGED <<executions, clock, matchVars, authVars, ladder, unitVars, marketVars>>

----------------------------------------------------------------------------
(* Market data service: market_data/service.py, retry.py, runner.py,       *)
(* publisher.py and the generators; the book cache is read by              *)
(* trading/infrastructure/market_data.py.                                  *)
(* Times are whole seconds of an aware UTC clock.  Market prices are        *)
(* integers; a level quantity of a snapshot is a float, kept here in        *)
(* quarters of a unit (4 is 1.0), which is exact for the ladders built.     *)

\* Largest number of attempts a service is built with.
MaxAttempts == 3
\* The wall-clock time after which the runner is not followed further.
MaxWall == 2

\* retry_backoff_seconds, in hundredths of a second.
retry_backoff_seconds == 5

\* self.feeds, in order.
Feeds == <<"EQ-FAST", "EQ-SLOW">>
FeedIds == {Feeds[i] : i \in 1..Len(Feeds)}

\* InstrumentFeed.update_interval, in seconds.
update_interval(f) == IF f = "EQ-FAST" THEN 1 ELSE 2

\* feed.order_book_generator is not None
has_order_book_generator(f) == f = "EQ-FAST"

\* The dealers of feed.dealer_quote_generator; none when the feed has no
\* generator.
dealers(f) == IF f = "EQ-FAST" THEN <<"DEALER-A", "DEALER-B">> ELSE <<>>

\* How a service is built: the attempts of its retries, the base quantity of
\* its ladder (1.0 or 2.0) and which optional collaborators are configured.
Wirings ==
    {[order_book_publisher |-> TRUE, order_book_repository |-> TRUE,
      dealer_quote_publisher |-> TRUE, dealer_quote_repository |-> TRUE],
     [order_book_publisher |-> TRUE, order_book_repository |-> FALSE,
      dealer_quote_publisher |-> TRUE, dealer_quote_repository |-> FALSE],
     [order_book_publisher |-> FALSE, order_book_repository |-> TRUE,
      dealer_quote_publisher |-> FALSE, dealer_quote_repository |-> FALSE]}

Configs ==
    {[retry_attempts |-> a, base_quantity |-> q, wiring |-> w] :
        a \in 0..MaxAttempts, q \in {4, 8}, w \in Wirings}

\* simulator.next_value(): the n-th value of a seeded walk, always positive.
next_value(f, n) == (IF f = "EQ-FAST" THEN 10 ELSE 20) + (n % 2)

\* InstrumentFeed.next_tick, with a half spread of 1.
next_tick(f, time, n) ==
    LET mid == next_value(f, n)
    IN [instrument_id |-> f, timestamp |-> time, bid |-> mid - 1,
        ask |-> mid + 1, mid |-> mid]

RECURSIVE Power(_, _)
Power(b, e) == IF e = 0 THEN 1 ELSE b * Power(b, e - 1)

\* LadderOrderBookGenerator.build with levels = 2, tick_size = 1,
\* quantity_decay = 0.5 and no price noise.
build(f, base_quantity, mid_price, time) ==
    [instrument_id |-> f,
     timestamp |-> time,
     bids |-> [l \in 1..2 |-> [price |-> mid_price - l,
                               quantity |-> base_quantity \div Power(2, l - 1)]],
     asks |-> [l \in 1..2 |-> [price |-> mid_price + l,
                               quantity |-> base_quantity \div Power(2, l - 1)]]]

\* DealerQuoteGenerator.generate with a spread of 2 and no volatility.
generate(f, mid_rate, time) ==
    [d \in 1..Len(dealers(f)) |->
        [instrument_id |-> f, dealer_id |-> dealers(f)[d], timestamp |-> time,
         bid |-> mid_rate - 1, ask |-> mid_rate + 1]]

\* The retry_async calls of one emission in program order: the function
\* awaited and its argument.
EmissionCalls_as_publish_first(cfg, f, event) ==
    LET snap == build(f, cfg.base_quantity, event.mid, event.timestamp)
        quotes == generate(f, event.mid, event.timestamp)
    IN <<[func |-> "publish_tick", arg |-> event],
         [func |-> "persist_tick", arg |-> event]>>
       \o (IF has_order_book_generator(f) /\ cfg.wiring.order_book_repository
           THEN <<[func |-> "persist_order_book", arg |-> snap]>> ELSE <<>>)
       \o (IF has_order_book_generator(f) /\ cfg.wiring.order_book_publisher
           THEN <<[func |-> "publish_order_book", arg |-> snap]>> ELSE <<>>)
       \o (IF quotes # <<>> /\ cfg.wiring.dealer_quote_repository
           THEN [d \in 1..Len(quotes) |->
                    [func |-> "persist_dealer_quote", arg |-> quotes[d]]]
           ELSE <<>>)
       \o (IF quotes # <<>> /\ cfg.wiring.dealer_quote_publisher
           THEN [d \in 1..Len(quotes) |->
                    [func |-> "publish_dealer_quote", arg |-> quotes[d]]]
           ELSE <<>>)

EmissionCalls(cfg, f, event) ==
    LET snap == build(f, cfg.base_quantity, event.mid, event.timestamp)
        quotes == generate(f, event.mid, event.timestamp)
    IN <<[func |-> "persist_tick", arg |-> event],
         [func |-> "publish_tick", arg |-> event]>>
       \o (IF has_order_book_generator(f) /\ cfg.wiring.order_book_repository
           THEN <<[func |-> "persist_order_book", arg |-> snap]>> ELSE <<>>)
       \o (IF has_order_book_generator(f) /\ cfg.wiring.order_book_publisher
           THEN <<[func |-> "publish_order_book", arg |-> snap]>> ELSE <<>>)
       \o (IF quotes # <<>> /\ cfg.wiring.dealer_quote_repository
           THEN [d \in 1..Len(quotes) |->
                    [func |-> "persist_dealer_quote", arg |-> quotes[d]]]
           ELSE <<>>)
       \o (IF quotes # <<>> /\ cfg.wiring.dealer_quote_publisher
           THEN [d \in 1..Len(quotes) |->
                    [func |-> "publish_dealer_quote", arg |-> quotes[d]]]
           ELSE <<>>)

\* if next_due is not None and timestamp < next_due: continue
is_due_as_strictly_after(next_due, time) ==
    ~(IsSome(next_due) /\ time <= Get(next_due))

is_due(next_due, time) == ~(IsSome(next_due) /\ time < Get(next_due))

\* self._next_emission[feed.instrument_id] = timestamp + feed.update_interval,
\* in the loop that selects the due feeds.
schedule_next_as_left_to_the_emission(table, f, time) == table

schedule_next(table, f, time) ==
    [table EXCEPT ![f] = Some(time + update_interval(f))]

\* retry_async: await sleeper(base_delay * attempt)
retry_delay_as_constant(base_delay, k) == base_delay

retry_delay(base_delay, k) == base_delay * k

\* retry_async: if attempt == attempts: raise
last_attempt_as_one_more(k, attempts) == k = attempts + 1

last_attempt(k, attempts) == k = attempts

\* json.dumps and json.loads on a list of (price, quantity) pairs.
json_dumps(value) == <<"json", value>>
json_loads(text) == text[2]

\* datetime.isoformat and datetime.fromisoformat on an aware UTC time.
isoformat(time) == <<time, "+00:00">>
fromisoformat(text) == text[1]

\* int(level.quantity): the float quantity truncated to whole units.
int_quantity(quantity) == quantity \div 4

\* RedisOrderBookPublisher.publish_order_book: the mapping given to HSET.
book_mapping(snap) ==
    [bids |-> json_dumps([l \in 1..Len(snap.bids) |->
                             <<snap.bids[l].price, int_quantity(snap.bids[l].quantity)>>]),
     asks |-> json_dumps([l \in 1..Len(snap.asks) |->
                             <<snap.asks[l].price, int_quantity(snap.asks[l].quantity)>>]),
     last_updated |-> isoformat(snap.timestamp)]

\* RedisMarketDataGateway.get_order_book on the hashes: the exception raised
\* ("none" when it returns) and the book returned.
get_order_book(hashes, instrument_id) ==
    IF ~IsSome(hashes[instrument_id])
    THEN [raised |-> "InstrumentNotFoundError", book |-> None]
    ELSE LET data == Get(hashes[instrument_id])
             pairs(text) == LET v == json_loads(text)
                            IN [l \in 1..Len(v) |-> [price |-> v[l][1], quantity |-> v[l][2]]]
             bids == pairs(data.bids)
             asks == pairs(data.asks)
         IN IF ValidateDepth(bids, TRUE) /\ ValidateDepth(asks, FALSE)
            THEN [raised |-> "none",
                  book |-> Some([instrument_id |-> instrument_id, bids |-> bids,
                                 asks |-> asks,
                                 last_updated |-> fromisoformat(data.last_updated)])]
            ELSE [raised |-> "ValidationError", book |-> None]

NoError == [type |-> "none", attempt |-> 0]

\* The retry_async call that is running, and the emission it belongs to.
CurrentCalls == EmissionCalls(config, emissions[1].feed, emissions[1].event)
Current == CurrentCalls[call]

\* The feeds that emit in a pump at the given time, as the first loop of
\* pump_once goes through self.feeds.
RECURSIVE SelectDue(_, _, _)
SelectDue(i, table, time) ==
    IF i > Len(Feeds) THEN <<>>
    ELSE IF is_due(table[Feeds[i]], time)
    THEN <<Feeds[i]>> \o SelectDue(i + 1, table, time)
    ELSE SelectDue(i + 1, table, time)

RECURSIVE ScheduleAll(_, _, _)
ScheduleAll(due, table, time) ==
    IF due = <<>> THEN table
    ELSE ScheduleAll(Tail(due), schedule_next(table, Head(due), time), time)

\* pump_once up to its first await: read the clock, select the due feeds,
\* draw their ticks and advance their next emission.  Started by run().
PumpOnce ==
    /\ runner = "ready"
    /\ LET due == SelectDue(1, next_emission, wall)
       IN /\ pump_timestamp' = wall
          /\ emissions' = [i \in 1..Len(due) |->
                              [feed |-> due[i],
                               event |-> next_tick(due[i], wall, simulator[due[i]])]]
          /\ simulator' = [f \in FeedIds |->
                              IF \E i \in 1..Len(due) : due[i] = f
                              THEN simulator[f] + 1 ELSE simulator[f]]
          /\ next_emission' = ScheduleAll(due, next_emission, wall)
          /\ runner' = IF due = <<>> THEN "sleeping" ELSE "pumping"
    /\ call' = 1 /\ attempt' = 1 /\ delays' = <<>> /\ awaiting' = "start"
    /\ pumps' = Append(pumps, wall)
    /\ UNCHANGED <<config, wall, last_emitted, effects, book_hash, book_read,
                   raised, tradingVars, matchVars, authVars, ladder, unitVars>>

\* The running retry_async call returns: the next call of the emission, the
\* next emission, or the end of pump_once (run() then sleeps).
Proceed_as_emission_cut_short ==
    /\ attempt' = 1 /\ delays' = <<>> /\ awaiting' = "start"
    /\ last_emitted' = IF Current.func = "publish_tick"
                       THEN [last_emitted EXCEPT ![Current.arg.instrument_id] =
                                Some(Current.arg)]
                       ELSE last_emitted
    /\ IF call < Len(CurrentCalls) /\ Current.func # "publish_tick"
       THEN /\ call' = call + 1
            /\ UNCHANGED <<emissions, runner>>
       ELSE /\ call' = 1
            /\ emissions' = Tail(emissions)
            /\ runner' = IF Tail(emissions) = <<>> THEN "sleeping" ELSE "pumping"
    /\ UNCHANGED <<config, wall, next_emission, simulator, pump_timestamp, book_read,
                   raised, pumps, tradingVars, matchVars, authVars, ladder, unitVars>>

Proceed ==
    /\ attempt' = 1 /\ delays' = <<>> /\ awaiting' = "start"
    /\ last_emitted' = IF Current.func = "publish_tick"
                       THEN [last_emitted EXCEPT ![Current.arg.instrument_id] =
                                Some(Current.arg)]
                       ELSE last_emitted
    /\ IF call < Len(CurrentCalls)
       THEN /\ call' = call + 1
            /\ UNCHANGED <<emissions, runner>>
       ELSE /\ call' = 1
            /\ emissions' = Tail(emissions)
            /\ runner' = IF Tail(emissions) = <<>> THEN "sleeping" ELSE "pumping"
    /\ UNCHANGED <<config, wall, next_emission, simulator, pump_timestamp, book_read,
                   raised, pumps, tradingVars, matchVars, authVars, ladder, unitVars>>

\* An exception leaves pump_once: run() does not catch it, so it leaves run()
\* and the task of the runner ends.  The frames stay as the traceback holds
\* them.
Abort_as_rolled_back(error) ==
    /\ runner' = "stopped"
    /\ raised' = error
    /\ effects' = SelectSeq(effects, LAMBDA w : w.event.timestamp # pump_timestamp)
    /\ UNCHANGED <<config, wall, next_emission, last_emitted, simulator,
                   pump_timestamp, emissions, call, attempt, delays, awaiting,
                   book_hash, book_read, pumps, tradingVars, matchVars, authVars, ladder, unitVars>>

Abort(error) ==
    /\ runner' = "stopped"
    /\ raised' = error
    /\ UNCHANGED <<config, wall, next_emission, last_emitted, simulator,
                   pump_timestamp, emissions, call, attempt, delays, awaiting,
                   effects, book_hash, book_read, pumps, tradingVars,
                   matchVars, authVars, ladder, unitVars>>

Running == runner = "pumping" /\ config.retry_attempts > 0

\* retry_async: if attempts <= 0: raise ValueError
BadAttempts ==
    /\ runner = "pumping" /\ config.retry_attempts <= 0
    /\ Abort([type |-> "ValueError", attempt |-> 0])

\* One awaited call of a repository or of the tick or quote publisher
\* succeeds: one INSERT or one XADD.
Invoke ==
    /\ Running /\ Current.func # "publish_order_book"
    /\ effects' = Append(effects, [op |-> Current.func, event |-> Current.arg])
    /\ UNCHANGED book_hash
    /\ Proceed

\* publish_order_book: await self._redis.xadd(...)
Xadd ==
    /\ Running /\ Current.func = "publish_order_book" /\ awaiting = "start"
    /\ effects' = Append(effects, [op |-> "xadd_order_book", event |-> Current.arg])
    /\ awaiting' = "hset"
    /\ UNCHANGED <<config, wall, next_emission, last_emitted, simulator, runner,
                   pump_timestamp, emissions, call, attempt, delays, book_hash,
                   book_read, raised, pumps, tradingVars, matchVars, authVars, ladder, unitVars>>

\* publish_order_book: await self._redis.hset(key, mapping=...), then return.
Hset ==
    /\ Running /\ Current.func = "publish_order_book" /\ awaiting = "hset"
    /\ effects' = Append(effects, [op |-> "publish_order_book", event |-> Current.arg])
    /\ book_hash' = [book_hash EXCEPT ![Current.arg.instrument_id] =
                        Some(book_mapping(Current.arg))]
    /\ Proceed

\* The awaited call raises before the last attempt: retry_async sleeps and
\* invokes the function again, from its start.
Retry ==
    /\ Running /\ ~last_attempt(attempt, config.retry_attempts)
    /\ delays' = Append(delays, retry_delay(retry_backoff_seconds, attempt))
    /\ attempt' = attempt + 1
    /\ awaiting' = "start"
    /\ UNCHANGED <<config, wall, next_emission, last_emitted, simulator, runner,
                   pump_timestamp, emissions, call, effects, book_hash, book_read,
                   raised, pumps, tradingVars, matchVars, authVars, ladder, unitVars>>

\* The awaited call raises on the last attempt: retry_async re-raises.
Exhaust ==
    /\ Running /\ last_attempt(attempt, config.retry_attempts)
    /\ Abort([type |-> "RuntimeError", attempt |-> attempt])

\* runner_task.cancel() while run() is suspended, in the sleep between pumps
\* or at an await inside pump_once: CancelledError is raised there; it is not
\* an Exception, so retry_async does not catch it and it leaves run().
Cancel ==
    /\ runner \in {"pumping", "sleeping"}
    /\ runner' = "cancelled"
    /\ raised' = [type |-> "CancelledError", attempt |-> 0]
    /\ UNCHANGED <<config, wall, next_emission, last_emitted, simulator,
                   pump_timestamp, emissions, call, attempt, delays, awaiting,
                   effects, book_hash, book_read, pumps, tradingVars,
                   matchVars, authVars, ladder, unitVars>>

\* run(): await self._sleep(self._interval); the clock moves on.
RunnerSleep ==
    /\ runner = "sleeping"
    /\ \E d \in {1, 2} : wall + d <= MaxWall /\ wall' = wall + d
    /\ runner' = "ready"
    /\ UNCHANGED <<config, next_emission, last_emitted, simulator, pump_timestamp,
                   emissions, call, attempt, delays, awaiting, effects,
                   book_hash, book_read, raised, pumps, tradingVars, matchVars, authVars, ladder, unitVars>>

\* The trading service fetches the book of an instrument from the cache.
GetOrderBook ==
    /\ \E i \in FeedIds :
           book_read' = [instrument_id |-> i, outcome |-> get_order_book(book_hash, i)]
    /\ book_read' # book_read
    /\ UNCHANGED <<config, wall, next_emission, last_emitted, simulator, runner,
                   pump_timestamp, emissions, call, attempt, delays, awaiting,
                   effects, book_hash, raised, pumps, tradingVars, matchVars, authVars, ladder, unitVars>>

NoRead == [instrument_id |-> "none", outcome |-> [raised |-> "none", book |-> None]]

\* The market data service as constructed, before run() is started.
MarketInit ==
    /\ config \in Configs
    /\ wall = 0
    /\ next_emission = [f \in FeedIds |-> None]
    /\ last_emitted = [f \in FeedIds |-> None]
    /\ simulator = [f \in FeedIds |-> 0]
    /\ runner = "ready"
    /\ pump_timestamp = 0
    /\ emissions = <<>>
    /\ call = 1 /\ attempt = 1 /\ delays = <<>> /\ awaiting = "start"
    /\ effects = <<>>
    /\ book_hash = [f \in FeedIds |-> None]
    /\ book_read = NoRead
    /\ raised = NoError
    /\ pumps = <<>>

\* The market data service not started.
MarketIdle ==
    /\ MarketInit
    /\ config.retry_attempts = MaxAttempts /\ config.base_quantity = 8
    /\ \A k \in DOMAIN config.wiring : config.wiring[k]

----------------------------------------------------------------------------
(* The auth service, the session store and the session check of POST       *)
(* /orders.  Time is counted in ticks of a whole number of seconds: the     *)
(* session TTL is a whole number of ticks, so the int(ttl.total_seconds())  *)
(* seconds given to SETEX are the TTL exactly.  An email is a sequence of   *)
(* one-character strings.  A                                                *)
(* user id is the number of its row; a token is the number of its draw,     *)
(* uuid4 never returning a value twice; token 0 is a cookie value that no   *)
(* draw returned.                                                           *)

\* The sessions issued in one behaviour.
MaxTokens == 2
\* The auth clock stops here.
MaxTicks == 3

\* AUTH_SESSION_TTL_MINUTES, in ticks.
session_ttl_minutes == 2
\* AUTH_STARTING_BALANCE.
starting_balance == 1000000
\* AUTH_BASE_CURRENCY.
base_currency == "USD"

\* The requests of the auth service that run concurrently.
AuthTasks == {1, 2}

\* AUTH_DEFAULT_USER_EMAIL and AUTH_DEFAULT_USER_PASSWORD.
DemoEmail == <<"d", "@", "e", ".", "c">>
DemoPassword == "demo"

\* The emails and passwords that requests carry.
RawEmails == {<<" ", "A", "@", "e", ".", "c">>,
              <<"D", "@", "e", ".", "c", " ">>,
              <<"a", "@", "e">>}
Passwords == {"Secur3!pass", DemoPassword}

\* str.lower on the letters in use.
lower_char(c) == CASE c = "A" -> "a" [] c = "D" -> "d" [] OTHER -> c
lower(s) == [i \in 1..Len(s) |-> lower_char(s[i])]

\* str.strip.
RECURSIVE strip(_)
strip(s) ==
    IF s = <<>> THEN s
    ELSE IF Head(s) = " " THEN strip(Tail(s))
    ELSE IF s[Len(s)] = " " THEN strip(SubSeq(s, 1, Len(s) - 1))
    ELSE s

\* _EMAIL_PATTERN.fullmatch: ^[^@\s]+@[^@\s]+\.[^@\s]+$
email_pattern(s) ==
    \E i \in 1..Len(s), j \in 1..Len(s) :
        /\ s[i] = "@" /\ s[j] = "."
        /\ 1 < i /\ i + 1 < j /\ j < Len(s)
        /\ \A m \in 1..Len(s) : s[m] # " " /\ (s[m] = "@" => m = i)

validate_email_as_case_kept(value) ==
    LET normalized == strip(value)
    IN IF email_pattern(normalized)
       THEN [raised |-> "none", value |-> normalized]
       ELSE [raised |-> "ValueError", value |-> <<>>]
\* RegistrationRequest.validate_email and LoginRequest.validate_email.
validate_email(value) ==
    LET normalized == lower(strip(value))
    IN IF email_pattern(normalized)
       THEN [raised |-> "none", value |-> normalized]
       ELSE [raised |-> "ValueError", value |-> <<>>]

\* RegistrationRequest(email, password): the validated request, or the
\* validation error that FastAPI answers with 422.
RegistrationRequest(email, password) ==
    IF Len(email) < 3 \/ Len(email) > 320 \/ Len(password) < 8 \/ Len(password) > 128
    THEN [raised |-> "ValidationError", email |-> <<>>]
    ELSE IF validate_email(email).raised # "none"
    THEN [raised |-> "ValidationError", email |-> <<>>]
    ELSE [raised |-> "none", email |-> validate_email(email).value]

\* LoginRequest(email, password).
LoginRequest(email, password) ==
    IF validate_email(email).raised # "none"
    THEN [raised |-> "ValidationError", email |-> <<>>]
    ELSE [raised |-> "none", email |-> validate_email(email).value]

\* Argon2PasswordHasher.hash and verify; the salt is left out.
hash(password) == <<"$argon2", password>>
verify(hashed_password, candidate) == hashed_password[2] = candidate

\* PostgresUserRepository.get_by_email: SELECT ... WHERE email = $1.
get_by_email(rows, email) ==
    IF \E i \in 1..Len(rows) : rows[i].email = email
    THEN Some(rows[CHOOSE i \in 1..Len(rows) : rows[i].email = email])
    ELSE None

\* PostgresUserRepository.create: INSERT INTO users, email being UNIQUE.
create(rows, email, password_hash) ==
    IF IsSome(get_by_email(rows, email))
    THEN [raised |-> "UniqueViolationError", rows |-> rows, user |-> None]
    ELSE LET user == [id |-> Len(rows) + 1, email |-> email,
                      password_hash |-> password_hash]
         IN [raised |-> "none", rows |-> Append(rows, user), user |-> Some(user)]

create_account_as_margin_enabled(rows, user_id, balance, currency) ==
    IF \E r \in rows : r.user_id = user_id
    THEN {IF r.user_id = user_id
          THEN [r EXCEPT !.cash_balance = balance, !.margin_allowed = TRUE]
          ELSE r : r \in rows}
    ELSE rows \cup {[user_id |-> user_id, cash_balance |-> balance,
                     base_currency |-> currency, margin_allowed |-> TRUE]}
\* PostgresAccountRepository.create_account with margin_allowed left at its
\* default: INSERT ... ON CONFLICT (user_id) DO UPDATE.
create_account(rows, user_id, balance, currency) ==
    IF \E r \in rows : r.user_id = user_id
    THEN {IF r.user_id = user_id
          THEN [r EXCEPT !.cash_balance = balance, !.margin_allowed = FALSE]
          ELSE r : r \in rows}
    ELSE rows \cup {[user_id |-> user_id, cash_balance |-> balance,
                     base_currency |-> currency, margin_allowed |-> FALSE]}

login_user_as_unknown_told_apart(user, password) ==
    IF ~IsSome(user) THEN "UserNotFoundError"
    ELSE IF ~verify(Get(user).password_hash, password) THEN "InvalidCredentialsError"
    ELSE "none"
\* AuthService.login_user: the exception raised on the looked up user, "none"
\* when a session is issued.
login_user(user, password) ==
    IF ~IsSome(user) \/ ~verify(Get(user).password_hash, password)
    THEN "InvalidCredentialsError"
    ELSE "none"

\* Redis GET: a key whose time to live has elapsed is absent.
redis_get(keys, k, time) ==
    IF IsSome(keys[k]) /\ time < Get(keys[k]).deadline
    THEN Some(Get(keys[k]).value)
    ELSE None

\* Redis SETEX key seconds value, executed at the given time.
redis_setex(keys, k, seconds, value, time) ==
    [keys EXCEPT ![k] = Some([value |-> value, deadline |-> time + seconds])]

redis_delete_as_all_sessions_dropped(keys, k) ==
    [j \in DOMAIN keys |-> None]
\* Redis DEL key.
redis_delete(keys, k) == [keys EXCEPT ![k] = None]

\* RedisSessionStore.issue up to its await: the session and the payload.
session_payload(session) ==
    json_dumps([user_id |-> session.user_id,
                expires_at |-> isoformat(session.expires_at)])

\* RedisSessionStore.get.
session_get(keys, k, time) ==
    LET raw == redis_get(keys, k, time)
    IN IF ~IsSome(raw) THEN None
       ELSE LET document == json_loads(Get(raw))
            IN Some([token |-> k, user_id |-> document.user_id,
                     expires_at |-> fromisoformat(document.expires_at)])

Tokens == 0..MaxTokens

IdleHandler ==
    [op |-> "none", pc |-> "idle", email |-> <<>>, password |-> "",
     cookie |-> None, normalized |-> <<>>, user |-> None, session |-> None,
     trace |-> <<>>]

NoResponse ==
    [op |-> "none", email |-> <<>>, cookie |-> None, status |-> 0,
     raised |-> "none", session |-> None]

\* The handler returns or raises: FastAPI answers with the status.
Respond(h, rec, status, error) ==
    /\ handlers' = [handlers EXCEPT ![h] = IdleHandler]
    /\ last' = [op |-> rec.op, email |-> rec.email,
                cookie |-> rec.cookie, status |-> status, raised |-> error,
                session |-> IF error = "none" THEN rec.session ELSE None]

\* RedisSessionStore.issue up to its await: the token is drawn and
\* expires_at is read off the clock.
BeginIssue(rec, user_id) ==
    [rec EXCEPT !.pc = "setex",
                !.session = Some([token |-> tokens_drawn + 1, user_id |-> user_id,
                                  expires_at |-> auth_time + session_ttl_minutes])]

\* The requests that may still issue a session.
Issuing == {h \in AuthTasks : handlers[h].op \in {"register", "login"}
                              /\ handlers[h].pc # "setex"}

\* A request runs in the first task that is free.
Free(h) ==
    /\ handlers[h].pc = "idle"
    /\ \A g \in AuthTasks : g < h => handlers[g].pc # "idle"

\* The tokens that a client holds, and a forged one.
CookieTokens == {0} \cup {k \in 1..MaxTokens : IsSome(issued[k])}

\* POST /auth/register up to the first await of register_user.
Register(h) ==
    /\ Free(h)
    /\ tokens_drawn + Cardinality(Issuing) < MaxTokens
    /\ \E email \in RawEmails, password \in Passwords :
         LET rec == [IdleHandler EXCEPT !.op = "register", !.email = email,
                                        !.password = password]
             parsed == RegistrationRequest(email, password)
         IN IF parsed.raised # "none"
            THEN Respond(h, rec, 422, parsed.raised)
            ELSE /\ handlers' = [handlers EXCEPT ![h] =
                        [rec EXCEPT !.pc = "get_by_email", !.normalized = parsed.email]]
                 /\ UNCHANGED last
    /\ UNCHANGED <<user_rows, account_rows, session_keys, auth_time, tokens_drawn,
                   issued, revoked, api, tradingVars, matchVars, marketVars, ladder, unitVars>>

\* POST /auth/login up to the first await of login_user.
Login(h) ==
    /\ Free(h)
    /\ tokens_drawn + Cardinality(Issuing) < MaxTokens
    /\ \E email \in RawEmails, password \in Passwords :
         LET rec == [IdleHandler EXCEPT !.op = "login", !.email = email,
                                        !.password = password]
             parsed == LoginRequest(email, password)
         IN IF parsed.raised # "none"
            THEN Respond(h, rec, 422, parsed.raised)
            ELSE /\ handlers' = [handlers EXCEPT ![h] =
                        [rec EXCEPT !.pc = "get_by_email", !.normalized = parsed.email]]
                 /\ UNCHANGED last
    /\ UNCHANGED <<user_rows, account_rows, session_keys, auth_time, tokens_drawn,
                   issued, revoked, api, tradingVars, matchVars, marketVars, ladder, unitVars>>

\* POST /auth/logout up to the await of revoke: without a cookie nothing is
\* revoked.
Logout(h) ==
    /\ Free(h)
    /\ \E cookie \in {None} \cup {Some(k) : k \in CookieTokens} :
         LET rec == [IdleHandler EXCEPT !.op = "logout", !.cookie = cookie]
         IN IF ~IsSome(cookie)
            THEN Respond(h, rec, 204, "none")
            ELSE /\ handlers' = [handlers EXCEPT ![h] = [rec EXCEPT !.pc = "revoke"]]
                 /\ UNCHANGED last
    /\ UNCHANGED <<user_rows, account_rows, session_keys, auth_time, tokens_drawn,
                   issued, revoked, api, tradingVars, matchVars, marketVars, ladder, unitVars>>

\* await get_by_email(request.email) of register_user and of login_user, and
\* what follows up to the next await.
GetByEmail(h) ==
    LET rec == handlers[h]
        found == get_by_email(user_rows, rec.normalized)
    IN /\ rec.pc = "get_by_email"
       /\ IF rec.op = "register"
          THEN IF IsSome(found)
               THEN Respond(h, rec, 409, "UserAlreadyExistsError")
                    /\ UNCHANGED tokens_drawn
               ELSE /\ handlers' = [handlers EXCEPT ![h] = [rec EXCEPT !.pc = "create"]]
                    /\ UNCHANGED <<last, tokens_drawn>>
          ELSE IF login_user(found, rec.password) # "none"
               THEN Respond(h, rec, 401, login_user(found, rec.password))
                    /\ UNCHANGED tokens_drawn
               ELSE /\ handlers' = [handlers EXCEPT ![h] =
                           BeginIssue([rec EXCEPT !.user = found], Get(found).id)]
                    /\ tokens_drawn' = tokens_drawn + 1
                    /\ UNCHANGED last
       /\ UNCHANGED <<user_rows, account_rows, session_keys, auth_time, issued,
                      revoked, api, tradingVars, matchVars, marketVars, ladder, unitVars>>

\* await create(request.email, password_hash) of register_user.
CreateUser(h) ==
    LET rec == handlers[h]
        made == create(user_rows, rec.normalized, hash(rec.password))
    IN /\ rec.pc = "create"
       /\ user_rows' = made.rows
       /\ IF made.raised # "none"
          THEN Respond(h, rec, 500, made.raised)
          ELSE /\ handlers' = [handlers EXCEPT ![h] =
                      [rec EXCEPT !.pc = "create_account", !.user = made.user,
                                  !.trace = Append(rec.trace,
                                                   <<"create", Get(made.user)>>)]]
               /\ UNCHANGED last
       /\ UNCHANGED <<account_rows, session_keys, auth_time, tokens_drawn, issued,
                      revoked, api, tradingVars, matchVars, marketVars, ladder, unitVars>>

\* await create_account(user.id, starting_balance, base_currency) of
\* register_user, and issue up to its await.
CreateAccount(h) ==
    LET rec == handlers[h]
        rows == create_account(account_rows, Get(rec.user).id, starting_balance,
                               base_currency)
    IN /\ rec.pc = "create_account"
       /\ account_rows' = rows
       /\ handlers' = [handlers EXCEPT ![h] =
              BeginIssue([rec EXCEPT !.trace =
                              Append(rec.trace,
                                     <<"create_account",
                                       CHOOSE r \in rows : r.user_id = Get(rec.user).id>>)],
                         Get(rec.user).id)]
       /\ tokens_drawn' = tokens_drawn + 1
       /\ UNCHANGED <<user_rows, session_keys, auth_time, issued, revoked, last,
                      api, tradingVars, matchVars, marketVars, ladder, unitVars>>

\* await setex(key, int(ttl.total_seconds()), payload) of issue, and the
\* return of the session.
Setex(h) ==
    LET rec == handlers[h]
        session == Get(rec.session)
        done == [rec EXCEPT !.trace = Append(rec.trace, <<"issue", session>>)]
    IN /\ rec.pc = "setex"
       /\ session_keys' = redis_setex(session_keys, session.token, session_ttl_minutes,
                                      session_payload(session), auth_time)
       /\ issued' = [issued EXCEPT ![session.token] = Some(session)]
       /\ Respond(h, done, IF rec.op = "register" THEN 201 ELSE 200, "none")
       /\ UNCHANGED <<user_rows, account_rows, auth_time, tokens_drawn, revoked,
                      api, tradingVars, matchVars, marketVars, ladder, unitVars>>

\* The awaited statement of the users table, the accounts table or Redis
\* raises (connection lost, statement timeout): nothing is written by it,
\* the exception leaves the service method and the endpoint, and FastAPI
\* answers 500.
StoreFails(h) ==
    /\ handlers[h].pc \in {"get_by_email", "create", "create_account", "setex", "revoke"}
    /\ Respond(h, handlers[h], 500, "InfrastructureError")
    /\ UNCHANGED <<user_rows, account_rows, session_keys, auth_time, tokens_drawn,
                   issued, revoked, api, tradingVars, matchVars, marketVars, ladder,
                   unitVars>>

\* await revoke(token) of logout_user.
Revoke(h) ==
    LET rec == handlers[h]
    IN /\ rec.pc = "revoke"
       /\ session_keys' = redis_delete(session_keys, Get(rec.cookie))
       /\ revoked' = revoked \cup {Get(rec.cookie)}
       /\ Respond(h, [rec EXCEPT !.trace = <<<<"revoke", Get(rec.cookie)>>>>], 204, "none")
       /\ UNCHANGED <<user_rows, account_rows, auth_time, tokens_drawn, issued,
                      api, tradingVars, matchVars, marketVars, ladder, unitVars>>

\* Time passes.
Tick ==
    /\ auth_time < MaxTicks
    /\ auth_time' = auth_time + 1
    /\ UNCHANGED <<user_rows, account_rows, session_keys, tokens_drawn, issued,
                   revoked, handlers, last, api, tradingVars, matchVars,
                   marketVars, ladder, unitVars>>

\* The bodies of POST /orders: without a user_id field, and with one for an
\* instrument that has a book and for one that has none.
Bodies ==
    {[user_id |-> None, instrument_id |-> Feeds[1], side |-> "BUY", quantity |-> 5,
      order_type |-> "MARKET"]}
    \cup [user_id : {Some(2)}, instrument_id : FeedIds, side : {"BUY"},
          quantity : {5}, order_type : {"MARKET"}]

\* OrderCreateRequest: the fields required and their constraints.
OrderCreateRequest(body) ==
    IF IsSome(body.user_id) /\ body.quantity > 0
    THEN "none"
    ELSE "RequestValidationError"

\* OrderCreateRequest.to_domain_request called with the given positional
\* arguments: the method takes none.
to_domain_request(body, args) ==
    IF Len(args) # 0
    THEN [raised |-> "TypeError", order |-> None]
    ELSE [raised |-> "none",
          order |-> Some([user_id |-> Get(body.user_id),
                          instrument_id |-> body.instrument_id, side |-> body.side,
                          quantity |-> body.quantity, order_type |-> body.order_type])]

NoBody ==
    [user_id |-> None, instrument_id |-> Feeds[1], side |-> "BUY", quantity |-> 0,
     order_type |-> "MARKET"]

IdleApi ==
    [pc |-> "idle", cookie |-> None, body |-> NoBody, session |-> None,
     book |-> "unread", submitted |-> None, status |-> 0]

\* The request is answered with the status code.
Answer(rec, code) ==
    [IdleApi EXCEPT !.pc = "done", !.cookie = rec.cookie, !.body = rec.body,
                    !.status = code]

\* POST /orders of create_default_app up to the await of session_store.get:
\* the body is validated before the endpoint is entered.
CreateOrderEndpoint ==
    /\ api.pc \in {"idle", "done"}
    /\ \E cookie \in {None} \cup {Some(k) : k \in CookieTokens}, body \in Bodies :
         LET rec == [IdleApi EXCEPT !.cookie = cookie, !.body = body]
         IN api' = IF OrderCreateRequest(body) # "none" THEN Answer(rec, 422)
                   ELSE IF ~IsSome(cookie) THEN Answer(rec, 401)
                   ELSE [rec EXCEPT !.pc = "get"]
    /\ UNCHANGED <<user_rows, account_rows, session_keys, auth_time, tokens_drawn,
                   issued, revoked, handlers, last, tradingVars, matchVars,
                   marketVars, ladder, unitVars>>

\* session = await session_store.get(SessionToken(token_value)).
GetSession ==
    LET session == session_get(session_keys, Get(api.cookie), auth_time)
    IN /\ api.pc = "get"
       /\ api' = IF ~IsSome(session) THEN Answer(api, 401)
                 ELSE [api EXCEPT !.pc = "get_order_book", !.session = session]
       /\ UNCHANGED <<user_rows, account_rows, session_keys, auth_time, tokens_drawn,
                      issued, revoked, handlers, last, tradingVars, matchVars,
                      marketVars, ladder, unitVars>>

\* order_book = await data_gateway.get_order_book(request.instrument_id) and
\* request.to_domain_request(session.user_id), the argument of submit.
ReadOrderBook ==
    LET read == get_order_book(book_hash, api.body.instrument_id)
        domain == to_domain_request(api.body, <<Get(api.session).user_id>>)
    IN /\ api.pc = "get_order_book"
       /\ api' = IF read.raised = "InstrumentNotFoundError" THEN Answer(api, 404)
                 ELSE IF read.raised # "none" \/ domain.raised # "none"
                 THEN Answer(api, 500)
                 ELSE [api EXCEPT !.pc = "submit", !.book = read.raised,
                                  !.submitted = domain.order]
       /\ UNCHANGED <<user_rows, account_rows, session_keys, auth_time, tokens_drawn,
                      issued, revoked, handlers, last, tradingVars, matchVars,
                      marketVars, ladder, unitVars>>

\* The stores as _ensure_default_user leaves them at startup.
AuthInit ==
    /\ user_rows = <<[id |-> 1, email |-> DemoEmail, password_hash |-> hash(DemoPassword)]>>
    /\ account_rows = create_account({}, 1, starting_balance, base_currency)
    /\ session_keys = [k \in Tokens |-> None]
    /\ auth_time = 0
    /\ tokens_drawn = 0
    /\ issued = [k \in Tokens |-> None]
    /\ revoked = {}
    /\ handlers = [h \in AuthTasks |-> IdleHandler]
    /\ last = NoResponse
    /\ api = IdleApi

----------------------------------------------------------------------------
(* The ladder order book generator with price noise.  Prices are whole     *)
(* multiples of 1e-6, so round(price, 6) leaves them as they are; a        *)
(* quantity is in quarters of a unit.                                      *)

\* The noise draws run from -MaxNoise to MaxNoise.
MaxNoise == 3
\* The mid prices run up to here.
MaxMid == 4

\* OrderBookDepthConfig: two levels, quantity_decay = 0.5.
DepthConfigs ==
    [levels : {2}, tick_size : {1, 2}, base_quantity : {8}, price_noise : {0, 1}]

\* The values rng.normalvariate can return, one per level.
NoiseDraws == [1..2 -> -MaxNoise..MaxNoise]

\* _is_descending and _is_ascending.
is_descending(levels) ==
    \A i \in 1..(Len(levels) - 1) : levels[i].price >= levels[i + 1].price
is_ascending(levels) ==
    \A i \in 1..(Len(levels) - 1) : levels[i].price <= levels[i + 1].price

\* OrderBookLevel and OrderBookSnapshot.validate_depth: the error raised by
\* the construction of the snapshot, "none" when it is returned.
validate_depth(bids, asks) ==
    IF \E i \in 1..Len(bids) : bids[i].quantity <= 0 THEN "ValidationError"
    ELSE IF \E i \in 1..Len(asks) : asks[i].quantity <= 0 THEN "ValidationError"
    ELSE IF bids # <<>> /\ ~is_descending(bids) THEN "ValidationError"
    ELSE IF asks # <<>> /\ ~is_ascending(asks) THEN "ValidationError"
    ELSE IF bids # <<>> /\ asks # <<>> /\ bids[1].price >= asks[1].price
    THEN "ValidationError"
    ELSE "none"

\* LadderOrderBookGenerator.build: draws[l] is what normalvariate returns
\* for level l - 1.
build_ladder(cfg, mid_price, draws) ==
    IF mid_price <= 0 THEN [raised |-> "ValueError", bids |-> <<>>, asks |-> <<>>]
    ELSE LET noise(l) == IF cfg.price_noise # 0 THEN draws[l] ELSE 0
             quantity(l) == cfg.base_quantity \div Power(2, l - 1)
             bids == [l \in 1..cfg.levels |->
                         [price |-> mid_price - cfg.tick_size * l - noise(l),
                          quantity |-> quantity(l)]]
             asks == [l \in 1..cfg.levels |->
                         [price |-> mid_price + cfg.tick_size * l + noise(l),
                          quantity |-> quantity(l)]]
         IN IF validate_depth(bids, asks) # "none"
            THEN [raised |-> validate_depth(bids, asks), bids |-> <<>>, asks |-> <<>>]
            ELSE [raised |-> "none", bids |-> bids, asks |-> asks]

NoLadder ==
    [pc |-> "idle", cfg |-> [levels |-> 2, tick_size |-> 1, base_quantity |-> 8,
                             price_noise |-> 0],
     mid_price |-> 0, draws |-> [l \in 1..2 |-> 0],
     built |-> [raised |-> "none", bids |-> <<>>, asks |-> <<>>]]

\* No generator is under study.
LadderIdle == ladder = NoLadder

\* A generator, a mid price and the draws of one call of build.
LadderInit ==
    \E cfg \in DepthConfigs, mid_price \in 0..MaxMid, draws \in NoiseDraws :
        ladder = [NoLadder EXCEPT !.pc = "ready", !.cfg = cfg,
                                  !.mid_price = mid_price, !.draws = draws]

\* snapshot = generator.build(mid_price, timestamp)
BuildLadder ==
    /\ ladder.pc = "ready"
    /\ ladder' = [ladder EXCEPT !.pc = "built",
                                !.built = build_ladder(ladder.cfg, ladder.mid_price,
                                                       ladder.draws)]
    /\ UNCHANGED <<tradingVars, matchVars, marketVars, authVars, unitVars>>

(***************************************************************************)
(* The seeded simulators, alone.  A generator of random.Random is modelled *)
(* by its state, a residue: seeding with an integer fixes the state,       *)
(* seeding with None takes it from the operating system's entropy.  Prices *)
(* are in hundredths and rates in basis points; exp(x) of the Brownian     *)
(* step is taken to first order, 1 + x, with x in percent.                 *)
(***************************************************************************)
MaxSteps == 3
MaxResets == 1

Instances == {1, 2}
Seeds == {None, Some(1), Some(2)}
Entropy == {3, 5}

\* random.Random(seed)
Random(seed, entropy) == IF IsSome(seed) THEN Get(seed) % 7 ELSE entropy

\* Random.normalvariate(0.0, 1.0): advances the generator and returns a shock
normalvariate(rng) ==
    LET advanced == (3 * rng + 1) % 7
    IN [rng |-> advanced, shock |-> (advanced % 3) - 1]

\* The constructor arguments the instances are built from (step_seconds is 1.0).
SimulatorParameters ==
    {[kind |-> "gbm", start |-> 100, drift |-> 1, volatility |-> 2,
      mean_reversion |-> 0, long_run_mean |-> 0],
     [kind |-> "gbm", start |-> 100, drift |-> 0, volatility |-> 0,
      mean_reversion |-> 0, long_run_mean |-> 0],
     [kind |-> "ou", start |-> 1, drift |-> 0, volatility |-> 1,
      mean_reversion |-> 0, long_run_mean |-> 0],
     [kind |-> "ou", start |-> 2, drift |-> 0, volatility |-> 1,
      mean_reversion |-> 1, long_run_mean |-> 1]}

\* _initialize_state of both simulators
initialize_state(sim) == [sim EXCEPT !.value = sim.parameters.start]

\* RandomProcessSimulator.__init__ after the subclass stored its parameters
Simulator(parameters, seed, entropy) ==
    [parameters |-> parameters, seed |-> seed, rng |-> Random(seed, entropy),
     value |-> parameters.start]

\* RandomProcessSimulator.reset
reset_as_generator_kept(sim, entropy) == initialize_state(sim)
reset(sim, entropy) ==
    initialize_state([sim EXCEPT !.rng = Random(sim.seed, entropy)])

\* GeometricBrownianMotionSimulator._step
gbm_step(sim) ==
    LET drawn == normalvariate(sim.rng)
        p == sim.parameters
        drift_term == p.drift - ((p.volatility * p.volatility) \div 2)
        diffusion_term == p.volatility * drawn.shock
    IN [sim EXCEPT !.rng = drawn.rng,
                   !.value = (sim.value * (100 + drift_term + diffusion_term)) \div 100]

\* MeanRevertingRateSimulator._step
ou_step(sim) ==
    LET drawn == normalvariate(sim.rng)
        p == sim.parameters
        drift_component == p.mean_reversion * (p.long_run_mean - sim.value)
        diffusion_component == p.volatility * drawn.shock
    IN [sim EXCEPT !.rng = drawn.rng,
                   !.value = sim.value + drift_component + diffusion_component]

\* next_value of either simulator: the simulator after the step; its value is returned
simulator_next_value(sim) ==
    IF sim.parameters.kind = "gbm" THEN gbm_step(sim) ELSE ou_step(sim)

NoInstance == [sim |-> Simulator(CHOOSE p \in SimulatorParameters : TRUE, None, 3),
               path |-> <<>>, original |-> <<>>, resets |-> 0, built |-> FALSE]

SimulatorsIdle == instances = [i \in Instances |-> NoInstance]

\* Two instances are built with the same seed and parameters.
SimulatorInit ==
    \E parameters \in SimulatorParameters, seed \in Seeds :
        \E entropy \in [Instances -> Entropy] :
            instances = [i \in Instances |->
                            [sim |-> Simulator(parameters, seed, entropy[i]),
                             path |-> <<>>, original |-> <<>>, resets |-> 0,
                             built |-> TRUE]]

\* One call of next_value on an instance; path is what it returned since it was
\* built or last reset, original what it returned before its first reset.
NextValue(i) ==
    /\ instances[i].built
    /\ Len(instances[i].path) < MaxSteps
    /\ LET stepped == simulator_next_value(instances[i].sim)
           path == Append(instances[i].path, stepped.value)
       IN instances' = [instances EXCEPT
                           ![i].sim = stepped,
                           ![i].path = path,
                           ![i].original = IF instances[i].resets = 0 THEN path
                                           ELSE instances[i].original]
    /\ UNCHANGED <<tradingVars, matchVars, marketVars, authVars, ladder, orders_table, run, rate_feed>>

\* One call of reset on an instance.
Reset(i) ==
    /\ instances[i].built
    /\ instances[i].resets < MaxResets
    /\ \E entropy \in Entropy :
          instances' = [instances EXCEPT
                           ![i].sim = reset(instances[i].sim, entropy),
                           ![i].path = <<>>,
                           ![i].resets = instances[i].resets + 1]
    /\ UNCHANGED <<tradingVars, matchVars, marketVars, authVars, ladder, orders_table, run, rate_feed>>

(***************************************************************************)
(* The orders repository alone: create_order called with any records,      *)
(* also with an order_id the table already holds.                          *)
(***************************************************************************)
\* The records handed to create_order, as submit builds them.
PersistedRecords ==
    {order_record(id, order_request, filled, filled * 2,
                  order_request.quantity - filled, timestamp) :
        id \in Tasks,
        order_request \in {r \in OrderRequests({"alice", "bob"}, {"AAA"}) :
                              /\ r.quantity = 2
                              /\ r.order_type = "MARKET"
                              /\ (r.user_id = "alice") = (r.side = "BUY")},
        filled \in {0, 2},
        timestamp \in {1, 2}}

OrdersTableIdle == orders_table = [rows |-> NoOrders, latest |-> None]

\* One call of AsyncpgOrdersRepository.create_order, committed.
PersistOrder ==
    /\ \E order \in PersistedRecords :
          orders_table' = [rows |-> create_order(orders_table.rows, order),
                           latest |-> Some(order)]
    /\ UNCHANGED <<tradingVars, matchVars, marketVars, authVars, ladder, instances, run, rate_feed>>

(***************************************************************************)
(* MarketDataRunner.run alone, driving a service whose pump_once returns   *)
(* without raising.  Intervals are in tenths of a second.                  *)
(***************************************************************************)
MaxIterations == 3

Intervals == {1, 2, 3}
IterationCounts == {None} \cup {Some(n) : n \in 0..MaxIterations}

NoRun == [iterations |-> None, interval |-> 1, pc |-> "unstarted", count |-> 0,
          calls |-> 0, active |-> 0, intervals |-> <<>>]

RunIdle == run = NoRun

\* runner = MarketDataRunner(service, interval_seconds); runner.run(iterations);
\* count = 0
RunInit ==
    \E iterations \in IterationCounts, interval \in Intervals :
        run = [NoRun EXCEPT !.iterations = iterations, !.interval = interval,
                            !.pc = "while"]

\* while iterations is None or count < iterations
loop_condition_as_one_more(iterations, count) ==
    ~IsSome(iterations) \/ count <= Get(iterations)
loop_condition(iterations, count) ==
    ~IsSome(iterations) \/ count < Get(iterations)

\* The loop test: enter the body or leave run().  An unbounded run is followed
\* for MaxIterations iterations.
RunWhile ==
    /\ run.pc = "while"
    /\ IsSome(run.iterations) \/ run.count < MaxIterations
    /\ run' = [run EXCEPT !.pc = IF loop_condition(run.iterations, run.count)
                                 THEN "pump_once" ELSE "returned"]
    /\ UNCHANGED <<tradingVars, matchVars, marketVars, authVars, ladder, instances,
                   orders_table, rate_feed>>

\* await self._service.pump_once(): the call starts.
RunPumpOnce ==
    /\ run.pc = "pump_once"
    /\ run' = [run EXCEPT !.pc = "pumping", !.calls = @ + 1, !.active = @ + 1]
    /\ UNCHANGED <<tradingVars, matchVars, marketVars, authVars, ladder, instances,
                   orders_table, rate_feed>>

\* pump_once returns; count += 1
RunPumped ==
    /\ run.pc = "pumping"
    /\ run' = [run EXCEPT !.pc = "sleep", !.active = @ - 1, !.count = @ + 1]
    /\ UNCHANGED <<tradingVars, matchVars, marketVars, authVars, ladder, instances,
                   orders_table, rate_feed>>

\* await self._sleep(self._interval)
RunSleep ==
    /\ run.pc = "sleep"
    /\ run' = [run EXCEPT !.pc = "while", !.intervals = Append(@, run.interval)]
    /\ UNCHANGED <<tradingVars, matchVars, marketVars, authVars, ladder, instances,
                   orders_table, rate_feed>>

(***************************************************************************)
(* One feed pumped with persists and publishes that all succeed: the tick  *)
(* of its simulator and what its generators make of the mid.  Rates and    *)
(* spreads are in basis points.                                            *)
(***************************************************************************)
\* DealerQuoteGenerator.generate with a base spread of 2 and no volatility:
\* the exception raised and the quotes returned.
dealer_generate(mid_rate, dealer_list) ==
    IF mid_rate <= 0 THEN [raised |-> "ValueError", quotes |-> <<>>]
    ELSE [raised |-> "none",
          quotes |-> [d \in 1..Len(dealer_list) |->
                         [dealer_id |-> dealer_list[d],
                          bid |-> mid_rate - 1, ask |-> mid_rate + 1]]]

\* pump_once for one due feed when every retry_async call returns: the
\* exception that leaves it, "none" when it completes.
pump_feed(mid, order_book, dealer_quotes) ==
    LET book == build_ladder(NoLadder.cfg, mid, NoLadder.draws)
        quotes == dealer_generate(mid, <<"DEALER-A", "DEALER-B">>)
    IN IF order_book /\ book.raised # "none" THEN book.raised
       ELSE IF dealer_quotes /\ quotes.raised # "none" THEN quotes.raised
       ELSE "none"

NoFeed == [sim |-> NoInstance.sim, order_book |-> FALSE, dealer_quotes |-> FALSE,
           pc |-> "unbuilt", raised |-> "none", pumps |-> 0, mid |-> 0]

FeedIdle == rate_feed = NoFeed

\* InstrumentConfig.build_feed: the simulator of the instrument type and the
\* generators configured.
FeedInit ==
    \E parameters \in SimulatorParameters, seed \in Seeds, entropy \in Entropy,
       order_book \in BOOLEAN, dealer_quotes \in BOOLEAN :
        rate_feed = [NoFeed EXCEPT !.sim = Simulator(parameters, seed, entropy),
                                   !.order_book = order_book,
                                   !.dealer_quotes = dealer_quotes,
                                   !.pc = "ready"]

\* One pump_once in which the feed is due and every persist and publish
\* succeeds.
PumpFeed ==
    /\ rate_feed.pc = "ready"
    /\ rate_feed.pumps < MaxSteps
    /\ LET stepped == simulator_next_value(rate_feed.sim)
           error == pump_feed(stepped.value, rate_feed.order_book,
                              rate_feed.dealer_quotes)
       IN rate_feed' = [rate_feed EXCEPT !.sim = stepped,
                                         !.mid = stepped.value,
                                         !.pumps = @ + 1,
                                         !.raised = error,
                                         !.pc = IF error = "none" THEN "ready"
                                                ELSE "raised"]
    /\ UNCHANGED <<tradingVars, matchVars, marketVars, authVars, ladder, instances,
                   orders_table, run>>

UnitIdle == SimulatorsIdle /\ OrdersTableIdle /\ RunIdle /\ FeedIdle

----------------------------------------------------------------------------
(* Initial states and specifications *)

TradingInit ==
    /\ accounts = InitAccounts
    /\ positions = InitPositions
    /\ orders = NoOrders
    /\ executions = <<>>
    /\ clock = 1
    /\ pc = [t \in Tasks |-> "idle"]
    /\ request = [t \in Tasks |-> NoRequest]
    /\ snapshot = [t \in Tasks |-> NoBook]
    /\ now = [t \in Tasks |-> 0]
    /\ account = [t \in Tasks |-> None]
    /\ existing_position = [t \in Tasks |-> None]
    /\ writes = [t \in Tasks |-> NoWrites]
    /\ result = [t \in Tasks |-> "none"]
    /\ before = [t \in Tasks |-> NoBefore]

MatchIdle ==
    /\ mOrder = NoRequest
    /\ mBook = NoBook
    /\ mResult = None
    /\ mHistory = <<>>

\* Concurrent submits: the trading service runs each request as its own task.
Init == TradingInit /\ MatchIdle /\ MarketIdle /\ AuthInit /\ LadderIdle /\ UnitIdle

Next ==
    \E t \in Tasks :
        \/ Submit(t)
        \/ GetAccount(t)
        \/ GetPosition(t)
        \/ Validate(t)
        \/ UpsertPosition(t)
        \/ UpsertAccount(t)
        \/ CreateOrder(t)
        \/ Publish(t)
        \/ Commit(t)
        \/ Fail(t)

Spec == Init /\ [][Next]_vars

\* Sequential submits: each call returns or raises before the next is made.
NextSerial ==
    \E t \in Tasks :
        \/ SubmitAlone(t)
        \/ GetAccount(t)
        \/ GetPosition(t)
        \/ Validate(t)
        \/ UpsertPosition(t)
        \/ UpsertAccount(t)
        \/ CreateOrder(t)
        \/ Publish(t)
        \/ Commit(t)
        \/ Fail(t)

SpecSerial == Init /\ [][NextSerial]_vars

----------------------------------------------------------------------------
(* The matching engine alone, on every order and every valid book *)

MatchOrders == OrderRequests({"alice"}, {"AAA"})

InitMatch ==
    /\ TradingInit
    /\ mOrder \in MatchOrders
    /\ mBook \in ListedInstrumentBook
    /\ mResult = None
    /\ mHistory = <<>>
    /\ MarketIdle
    /\ AuthInit
    /\ LadderIdle
    /\ UnitIdle

\* The calls of match on one (order, book) that are followed.
MatchCalls == {1, 2}

\* fills, residual = matching_engine.match(order, book), called again with
\* the same arguments: the book object after the call is the argument of the
\* next call.
RunMatch ==
    /\ Len(mHistory) + 1 \in MatchCalls
    /\ mResult' = Some(match(mOrder, mBook))
    /\ mHistory' = Append(mHistory, match(mOrder, mBook))
    /\ mBook' = book_after_match(mOrder, mBook)
    /\ UNCHANGED <<mOrder, tradingVars, marketVars, authVars, ladder, unitVars>>

NextMatch == RunMatch

SpecMatch == InitMatch /\ [][NextMatch]_vars

----------------------------------------------------------------------------
(* The market data runner with the trading gateway reading the book cache *)

InitPump == TradingInit /\ MatchIdle /\ MarketInit /\ AuthInit /\ LadderIdle /\ UnitIdle

NextPump ==
    \/ PumpOnce
    \/ BadAttempts
    \/ Invoke
    \/ Xadd
    \/ Hset
    \/ Retry
    \/ Exhaust
    \/ RunnerSleep
    \/ Cancel
    \/ GetOrderBook

SpecPump == InitPump /\ [][NextPump]_vars

----------------------------------------------------------------------------
(* The auth service, alone and with the trading service resolving sessions *)

\* The market data service not started, the book cache as an earlier run
\* left it: a book of each feed that has an order book generator.
MarketCached ==
    /\ config \in Configs
    /\ config.retry_attempts = MaxAttempts /\ config.base_quantity = 8
    /\ \A k \in DOMAIN config.wiring : config.wiring[k]
    /\ wall = 0
    /\ next_emission = [f \in FeedIds |-> None]
    /\ last_emitted = [f \in FeedIds |-> None]
    /\ simulator = [f \in FeedIds |-> 0]
    /\ runner = "ready"
    /\ pump_timestamp = 0
    /\ emissions = <<>>
    /\ call = 1 /\ attempt = 1 /\ delays = <<>> /\ awaiting = "start"
    /\ effects = <<>>
    /\ book_hash = [f \in FeedIds |->
                       IF has_order_book_generator(f)
                       THEN Some(book_mapping(build(f, 8, next_value(f, 1), 0)))
                       ELSE None]
    /\ book_read = NoRead
    /\ raised = NoError
    /\ pumps = <<>>

InitAuth == TradingInit /\ MatchIdle /\ MarketCached /\ AuthInit /\ LadderIdle /\ UnitIdle

\* The auth service alone, its requests running concurrently.
NextAuth ==
    \/ \E h \in AuthTasks :
           \/ Register(h)
           \/ Login(h)
           \/ Logout(h)
           \/ GetByEmail(h)
           \/ CreateUser(h)
           \/ CreateAccount(h)
           \/ Setex(h)
           \/ Revoke(h)
    \/ Tick

SpecAuth == InitAuth /\ [][NextAuth]_vars

\* The auth requests that are followed while POST /orders runs.
SessionTasks == {1}

\* The trading service resolving sessions while the auth service issues
\* and revokes them.
NextSession ==
    \/ \E h \in SessionTasks :
           \/ Register(h)
           \/ Login(h)
           \/ Logout(h)
           \/ GetByEmail(h)
           \/ CreateUser(h)
           \/ CreateAccount(h)
           \/ Setex(h)
           \/ Revoke(h)
    \/ Tick
    \/ CreateOrderEndpoint
    \/ GetSession
    \/ ReadOrderBook

SpecSession == InitAuth /\ [][NextSession]_vars

\* The auth service, one request at a time, with a database and a Redis
\* that can fail.
NextAuthFaulty ==
    \/ \E h \in SessionTasks :
           \/ Register(h)
           \/ Login(h)
           \/ Logout(h)
           \/ GetByEmail(h)
           \/ CreateUser(h)
           \/ CreateAccount(h)
           \/ Setex(h)
           \/ Revoke(h)
           \/ StoreFails(h)
    \/ Tick

SpecAuthFaulty == InitAuth /\ [][NextAuthFaulty]_vars

----------------------------------------------------------------------------
(* The order book generator alone, on every mid price and every draw *)

InitLadder == TradingInit /\ MatchIdle /\ MarketIdle /\ AuthInit /\ LadderInit /\ UnitIdle

NextLadder == BuildLadder

SpecLadder == InitLadder /\ [][NextLadder]_vars

(***************************************************************************)
(* The simulators alone: two instances built alike, stepped and reset.     *)
(***************************************************************************)
InitSimulators ==
    TradingInit /\ MatchIdle /\ MarketIdle /\ AuthInit /\ LadderIdle /\ SimulatorInit /\ OrdersTableIdle /\ RunIdle /\ FeedIdle

NextSimulators == \E i \in Instances : NextValue(i) \/ Reset(i)

SpecSimulators == InitSimulators /\ [][NextSimulators]_vars

(***************************************************************************)
(* The orders repository alone.                                            *)
(***************************************************************************)
InitOrdersTable ==
    TradingInit /\ MatchIdle /\ MarketIdle /\ AuthInit /\ LadderIdle /\ UnitIdle

NextOrdersTable == PersistOrder

SpecOrdersTable == InitOrdersTable /\ [][NextOrdersTable]_vars

(***************************************************************************)
(* The runner alone.  The event loop resumes a coroutine that can          *)
(* continue, so a step that stays possible is taken.                       *)
(***************************************************************************)
InitRun ==
    /\ TradingInit /\ MatchIdle /\ MarketIdle /\ AuthInit /\ LadderIdle
    /\ SimulatorsIdle /\ OrdersTableIdle /\ RunInit /\ FeedIdle

NextRun == RunWhile \/ RunPumpOnce \/ RunPumped \/ RunSleep

SpecRun == InitRun /\ [][NextRun]_vars /\ WF_vars(NextRun)

(***************************************************************************)
(* One feed pumped with a store and streams that never fail.               *)
(***************************************************************************)
InitFeed ==
    /\ TradingInit /\ MatchIdle /\ MarketIdle /\ AuthInit /\ LadderIdle
    /\ SimulatorsIdle /\ OrdersTableIdle /\ RunIdle /\ FeedInit

NextFeed == PumpFeed

SpecFeed == InitFeed /\ [][NextFeed]_vars

----------------------------------------------------------------------------
(* Properties of the matching engine, under SpecMatch *)

\* What the limit of an order allows, stated apart from the engine.
LimitAllows(order, price) ==
    \/ order.order_type = "MARKET"
    \/ order.side = "BUY" /\ price <= Get(order.limit_price)
    \/ order.side = "SELL" /\ price >= Get(order.limit_price)

\* The levels of the opposite side the limit allows, in stored order.
AllowedLevels(order, book) ==
    SelectSeq(IF order.side = "BUY" THEN book.asks ELSE book.bids,
              LAMBDA l : LimitAllows(order, l.price))

\* The quantity filled by the first k fills.
RECURSIVE FilledUpTo(_, _)
FilledUpTo(fills, k) == IF k = 0 THEN 0 ELSE fills[k].quantity + FilledUpTo(fills, k - 1)

\* C8: matching conserves quantity: the fill quantities and the residual add
\* up to the order quantity, every fill quantity is positive and the residual
\* is not negative.
C8_MatchConservesQuantity ==
    IsSome(mResult) =>
        LET fills == Get(mResult).fills
            residual == Get(mResult).residual
        IN /\ FilledUpTo(fills, Len(fills)) + residual = mOrder.quantity
           /\ \A i \in 1..Len(fills) : fills[i].quantity > 0
           /\ residual >= 0

\* A partial fill over two levels.
C8_Witness ==
    /\ IsSome(mResult)
    /\ Len(Get(mResult).fills) = 2
    /\ Get(mResult).residual > 0

\* C9: every fill respects the limit of the order (LIMIT BUY at or below it,
\* LIMIT SELL at or above it); BUY fills are levels of the asks and SELL fills
\* levels of the bids; a MARKET order takes the levels of the opposite side
\* one after the other, refusing none.
C9_FillsRespectLimit ==
    IsSome(mResult) =>
        LET fills == Get(mResult).fills
            residual == Get(mResult).residual
            side == IF mOrder.side = "BUY" THEN mBook.asks ELSE mBook.bids
        IN /\ mOrder.order_type = "LIMIT" /\ mOrder.side = "BUY" =>
                  \A i \in 1..Len(fills) : fills[i].price <= Get(mOrder.limit_price)
           /\ mOrder.order_type = "LIMIT" /\ mOrder.side = "SELL" =>
                  \A i \in 1..Len(fills) : fills[i].price >= Get(mOrder.limit_price)
           /\ \A i \in 1..Len(fills) :
                  \E j \in 1..Len(side) :
                      /\ side[j].price = fills[i].price
                      /\ fills[i].quantity <= side[j].quantity
           /\ mOrder.order_type = "MARKET" =>
                  /\ Len(fills) <= Len(side)
                  /\ \A i \in 1..Len(fills) : fills[i].price = side[i].price
                  /\ residual > 0 => Len(fills) = Len(side)

\* A LIMIT BUY filled at its first level and stopped by its limit at the next.
C9_Witness ==
    /\ IsSome(mResult)
    /\ mOrder.order_type = "LIMIT" /\ mOrder.side = "BUY"
    /\ Len(Get(mResult).fills) = 1
    /\ Len(mBook.asks) = 2
    /\ mBook.asks[2].price > Get(mOrder.limit_price)
    /\ Get(mResult).residual > 0

\* C10: price priority: the k-th fill is taken from the k-th level the limit
\* allows, in the stored order of the snapshot (so at most one fill per level,
\* best price first); it takes min(level quantity, remaining); every fill but
\* the last exhausts its level; no allowed level is left while quantity
\* remains.
C10_PricePriority ==
    IsSome(mResult) =>
        LET fills == Get(mResult).fills
            residual == Get(mResult).residual
            allowed == AllowedLevels(mOrder, mBook)
        IN /\ Len(fills) <= Len(allowed)
           /\ \A k \in 1..Len(fills) :
                  /\ fills[k].price = allowed[k].price
                  /\ fills[k].quantity =
                         Min(allowed[k].quantity,
                             mOrder.quantity - FilledUpTo(fills, k - 1))
                  /\ k < Len(fills) => fills[k].quantity = allowed[k].quantity
                  /\ k > 1 => IF mOrder.side = "BUY"
                              THEN fills[k - 1].price <= fills[k].price
                              ELSE fills[k - 1].price >= fills[k].price
           /\ residual > 0 => Len(fills) = Len(allowed)

\* A BUY that exhausts the best ask and takes part of the next, dearer one.
C10_Witness ==
    /\ IsSome(mResult)
    /\ mOrder.side = "BUY"
    /\ Len(Get(mResult).fills) = 2
    /\ Get(mResult).fills[1].price < Get(mResult).fills[2].price
    /\ Get(mResult).fills[1].quantity = mBook.asks[1].quantity
    /\ Get(mResult).fills[2].quantity < mBook.asks[2].quantity
    /\ Get(mResult).residual = 0

----------------------------------------------------------------------------
(* Properties of submit *)

Cash(table, u) == Get(table[u]).cash_balance
Quantity(table, k) == IF IsSome(table[k]) THEN Get(table[k]).quantity ELSE 0

\* Task t raises exc, or returns when exc is "ok", in this step.
Leaves(t, exc) == result[t] = "none" /\ result'[t] = exc

\* Task t passes or fails the synchronous checks in this step.
Validates(t) == pc[t] = "validate" /\ pc'[t] # "validate"

\* What submit does to the accounts and positions when nothing else runs.
SerialSubmit(st, t) ==
    LET req == request[t]
        acct == st.accounts[req.user_id]
        pos == st.positions[<<req.user_id, req.instrument_id>>]
        fills == match(req, snapshot[t]).fills
    IN IF ~IsSome(acct) THEN st
       ELSE IF Rejection(req, snapshot[t], Get(acct), pos) # "none" THEN st
       ELSE [accounts |->
                 upsert_account(st.accounts,
                     apply_cash_mutation(Get(acct), req.side,
                                         total_consideration(fills), 0)),
             positions |->
                 IF filled_quantity(fills) > 0
                 THEN upsert_position(st.positions,
                          apply_position_mutation(req, pos, filled_quantity(fills),
                                                  total_consideration(fills), 0).record)
                 ELSE st.positions]

RECURSIVE SerialRun(_, _, _)
SerialRun(st, order, i) ==
    IF i > Len(order) THEN st ELSE SerialRun(SerialSubmit(st, order[i]), order, i + 1)

\* Every order in which the tasks of S can run one after another.
Orderings(S) ==
    {o \in [1..Cardinality(S) -> S] : \A i, j \in 1..Cardinality(S) : o[i] = o[j] => i = j}

\* C1: concurrent submits are serialized: the committed cash balances and
\* position quantities are those of running the committed submits one after
\* another in some order.
C1_Serializable ==
    \E o \in Orderings({t \in Tasks : result[t] = "ok"}) :
        LET fin == SerialRun([accounts |-> InitAccounts, positions |-> InitPositions], o, 1)
        IN /\ \A u \in Users :
                  IsSome(accounts[u]) => Cash(accounts, u) = Cash(fin.accounts, u)
           /\ \A k \in PositionKeys :
                  Quantity(positions, k) = Quantity(fin.positions, k)

\* C2: a submit rejected with InsufficientBalance, InsufficientPosition or
\* OrderValidationError leaves the accounts, positions and orders tables and
\* the execution stream exactly as they were when it was called.
C2_RejectionChangesNothing ==
    [][\A t \in Tasks :
          (\E exc \in DomainRejections : Leaves(t, exc)) =>
              /\ accounts' = before[t].accounts
              /\ positions' = before[t].positions
              /\ orders' = before[t].orders
              /\ executions' = before[t].executions]_vars

\* A BUY rejected for its balance after an earlier order was executed.
C2_Witness ==
    /\ result[1] = "ok" /\ IsSome(orders[1]) /\ Len(executions) = 1
    /\ result[2] = "InsufficientBalanceError"
    /\ request[2].side = "BUY"

\* C3: a submit that fails on a store or stream operation, or on its commit,
\* leaves none of its account, position or order writes visible and no
\* execution event of its order on the execution stream.
C3_FailureLeavesNoTrace ==
    [][\A t \in Tasks :
          Leaves(t, "InfrastructureError") =>
              /\ accounts' = before[t].accounts
              /\ positions' = before[t].positions
              /\ orders' = before[t].orders
              /\ \A i \in 1..Len(executions') : executions'[i].order_id # t]_vars

\* C4: cash conservation: a successful submit changes the cash balance of its
\* user by minus the consideration for a BUY and plus the consideration for a
\* SELL; without fills only updated_at changes, to the time of the submit.
C4_CashConservation ==
    [][\A t \in Tasks :
          Leaves(t, "ok") =>
              LET u == request[t].user_id
                  old == Get(before[t].accounts[u])
                  new == Get(accounts'[u])
              IN /\ request[t].side = "BUY" =>
                        new.cash_balance - old.cash_balance = -Consideration(t)
                 /\ request[t].side = "SELL" =>
                        new.cash_balance - old.cash_balance = Consideration(t)
                 /\ new.updated_at = now[t]
                 /\ Len(Fills(t)) = 0 => new = [old EXCEPT !.updated_at = now[t]]]_vars

\* A SELL with fills, then an order without fills, both returned.
C4_Witness ==
    /\ result[1] = "ok" /\ request[1].side = "SELL"
    /\ Get(orders[1]).filled_quantity > 0
    /\ result[2] = "ok" /\ request[2].user_id = request[1].user_id
    /\ Get(orders[2]).filled_quantity = 0
    /\ Cash(accounts, request[1].user_id) > 6
    /\ Get(accounts[request[1].user_id]).updated_at = 2

\* C5: position conservation: a successful submit with fills changes the
\* position quantity of its user and instrument by +filled for a BUY and
\* -filled for a SELL; without fills it does not write the row; the rows of
\* every other user and instrument stay as they were.
C5_PositionConservation ==
    [][\A t \in Tasks :
          Leaves(t, "ok") =>
              LET k == <<request[t].user_id, request[t].instrument_id>>
                  old == before[t].positions
                  filled == FilledUpTo(Fills(t), Len(Fills(t)))
              IN /\ filled > 0 /\ request[t].side = "BUY" =>
                        /\ IsSome(positions'[k])
                        /\ Quantity(positions', k) = Quantity(old, k) + filled
                 /\ filled > 0 /\ request[t].side = "SELL" =>
                        /\ IsSome(positions'[k])
                        /\ Quantity(positions', k) = Quantity(old, k) - filled
                 /\ filled = 0 => positions'[k] = old[k]
                 /\ \A j \in PositionKeys \ {k} : positions'[j] = old[j]]_vars

\* bob bought and then alice sold: a row created, another reduced.
C5_Witness ==
    /\ result[1] = "ok" /\ request[1].user_id = "bob" /\ request[1].side = "BUY"
    /\ Quantity(positions, <<"bob", "AAA">>) = 1
    /\ result[2] = "ok" /\ request[2].user_id = "alice" /\ request[2].side = "SELL"
    /\ Get(orders[2]).filled_quantity = 2
    /\ IsSome(positions[<<"alice", "AAA">>])
    /\ Quantity(positions, <<"alice", "AAA">>) = 0

\* C6 as stated: starting from a balance that is not negative, no cash balance
\* is ever negative.
C6_CashNeverNegative ==
    \A u \in Users : IsSome(accounts[u]) => Cash(accounts, u) >= 0

\* C6: a BUY is rejected with InsufficientBalance exactly when the
\* consideration of its fills exceeds the cash balance read by more than the
\* tolerance; a cash balance is never below minus the tolerance.
C6_BalanceCheck ==
    [][/\ \A t \in Tasks :
              Validates(t) /\ request[t].side = "BUY" =>
                  (result'[t] = "InsufficientBalanceError"
                       <=> Consideration(t) > Get(account[t]).cash_balance + Tolerance)
       /\ \A u \in Users :
              IsSome(accounts'[u]) => Cash(accounts', u) >= -Tolerance]_vars

\* A BUY accepted for one tolerance more than the balance, then a BUY rejected.
C6_Witness ==
    /\ result[1] = "ok" /\ request[1].side = "BUY" /\ request[1].user_id = "alice"
    /\ Cash(accounts, "alice") = -Tolerance
    /\ result[2] = "InsufficientBalanceError" /\ request[2].user_id = "alice"

\* C7: a SELL is rejected with InsufficientPosition exactly when the position
\* quantity read (0 without a row) is below the full order quantity, whatever
\* would fill; no position quantity is ever negative.
C7_SellCheck ==
    [][/\ \A t \in Tasks :
              Validates(t) /\ request[t].side = "SELL" =>
                  (result'[t] = "InsufficientPositionError"
                       <=> Quantity(existing_position, t) < request[t].quantity)
       /\ \A k \in PositionKeys : Quantity(positions', k) >= 0]_vars

\* alice holds 2 and sells 1; then her SELL of 3 with a limit that only 1 unit
\* of the book meets is rejected.
C7_Witness ==
    /\ result[1] = "ok" /\ request[1].user_id = "alice" /\ request[1].side = "SELL"
    /\ request[1].instrument_id = "AAA" /\ request[1].quantity = 1
    /\ Quantity(positions, <<"alice", "AAA">>) = 1
    /\ result[2] = "InsufficientPositionError"
    /\ request[2].user_id = "alice" /\ request[2].instrument_id = "AAA"
    /\ request[2].order_type = "LIMIT" /\ request[2].limit_price = Some(2)
    /\ request[2].quantity = 3

\* The status the law gives to a filled quantity and a residual.
StatusLaw(filled, residual) ==
    CASE filled = 0 -> "NEW"
      [] filled > 0 /\ residual = 0 -> "FILLED"
      [] OTHER -> "PARTIALLY_FILLED"

\* C12: order status law: the order record a successful submit returns is the
\* row it leaves in the orders table, and its status is NEW when nothing was
\* filled, FILLED when something was filled and nothing is left, and
\* PARTIALLY_FILLED otherwise; no order row is ever CANCELLED.
C12_StatusLaw ==
    [][/\ \A t \in Tasks :
              Leaves(t, "ok") =>
                  LET fills == match(request[t], snapshot[t]).fills
                      filled == FilledUpTo(fills, Len(fills))
                  IN /\ IsSome(writes[t].order) /\ orders'[t] = writes[t].order
                     /\ Get(orders'[t]).filled_quantity = filled
                     /\ Get(orders'[t]).status =
                            StatusLaw(filled, request[t].quantity - filled)
       /\ \A o \in Tasks :
              IsSome(orders'[o]) => Get(orders'[o]).status # "CANCELLED"]_vars

\* One order partially filled and one order not filled at all.
C12_Witness ==
    /\ result[1] = "ok" /\ IsSome(orders[1])
    /\ Get(orders[1]).status = "PARTIALLY_FILLED"
    /\ result[2] = "ok" /\ IsSome(orders[2])
    /\ Get(orders[2]).status = "NEW"

\* The execution events of order o on a stream.
EventsOf(stream, o) == SelectSeq(stream, LAMBDA e : e.order_id = o)

\* C13: a successful submit leaves exactly one execution event of its order
\* on the stream when something was filled and none when nothing was; the
\* event has execution_id order_id followed by "-exec", the total filled
\* quantity and the price consideration / filled, however many levels
\* filled; an event is published only when the order record has been written
\* in the unit of work.
C13_OneExecutionEvent ==
    [][/\ \A t \in Tasks :
              Leaves(t, "ok") =>
                  LET fills == match(request[t], snapshot[t]).fills
                      filled == FilledUpTo(fills, Len(fills))
                      mine == EventsOf(executions', t)
                  IN /\ Len(mine) = IF filled > 0 THEN 1 ELSE 0
                     /\ filled > 0 =>
                            /\ mine[1].execution_id = <<t, "-exec">>
                            /\ mine[1].quantity = filled
                            /\ mine[1].price[1] * filled =
                                   total_consideration(fills) * mine[1].price[2]
       /\ \A t \in Tasks :
              Len(EventsOf(executions', t)) > Len(EventsOf(executions, t)) =>
                  /\ IsSome(writes[t].order)
                  /\ Get(writes[t].order).order_id = t]_vars

\* An order filled from two levels with one event, and an order with no fill
\* and no event.
C13_Witness ==
    /\ result[1] = "ok" /\ Len(EventsOf(executions, 1)) = 1
    /\ Len(match(request[1], snapshot[1]).fills) = 2
    /\ executions[1].quantity = 2
    /\ result[2] = "ok" /\ EventsOf(executions, 2) = <<>>

----------------------------------------------------------------------------
(* Properties of the market data service, under SpecPump *)

\* What a completed write is about: 1 a tick, 2 a book snapshot, 3 a dealer
\* quote; and whether it is a publish or a persist.
KindOf(op) ==
    CASE op \in {"persist_tick", "publish_tick"} -> 1
      [] op \in {"persist_order_book", "xadd_order_book", "publish_order_book"} -> 2
      [] OTHER -> 3
IsPublish(op) ==
    op \in {"publish_tick", "xadd_order_book", "publish_order_book",
            "publish_dealer_quote"}
PersistOf(op) ==
    CASE KindOf(op) = 1 -> "persist_tick"
      [] KindOf(op) = 2 -> "persist_order_book"
      [] OTHER -> "persist_dealer_quote"
RepositoryConfigured(op) ==
    CASE KindOf(op) = 1 -> TRUE
      [] KindOf(op) = 2 -> config.wiring.order_book_repository
      [] OTHER -> config.wiring.dealer_quote_repository

\* C14: durable before published: every tick, book snapshot or dealer quote
\* written to a stream was persisted successfully before, when its
\* repository is configured; and within one emission of a feed the writes
\* of the tick come before those of the book, which come before those of
\* the quotes.
C14_DurableBeforePublished ==
    \A j \in 1..Len(effects) :
        /\ IsPublish(effects[j].op) /\ RepositoryConfigured(effects[j].op) =>
               \E i \in 1..(j - 1) :
                   /\ effects[i].op = PersistOf(effects[j].op)
                   /\ effects[i].event = effects[j].event
        /\ \A i \in 1..(j - 1) :
               /\ effects[i].event.instrument_id = effects[j].event.instrument_id
               /\ effects[i].event.timestamp = effects[j].event.timestamp
               => KindOf(effects[i].op) <= KindOf(effects[j].op)

\* A complete emission of tick, book and two quotes with every repository
\* configured.
C14_Witness ==
    /\ runner = "sleeping"
    /\ config.wiring.order_book_repository /\ config.wiring.dealer_quote_repository
    /\ config.wiring.order_book_publisher /\ config.wiring.dealer_quote_publisher
    /\ \E j \in 1..Len(effects) :
           /\ effects[j].op = "publish_dealer_quote"
           /\ effects[j].event.dealer_id = "DEALER-B"

\* How many completed writes are the write op of the event e.
CountOf(op, e) ==
    Cardinality({i \in 1..Len(effects) : effects[i].op = op /\ effects[i].event = e})

\* The bounded retry, on the running or last call: the function is invoked
\* at most attempts times; the sleep after the k-th failure is base_delay * k
\* and there is none after the last; the error re-raised after attempts
\* failures is the one of the last attempt; a call that returned is not
\* invoked again.
RetryLaw ==
    /\ config.retry_attempts > 0 /\ runner \in {"pumping", "stopped"} =>
           /\ attempt \in 1..config.retry_attempts
           /\ Len(delays) = attempt - 1
           /\ \A k \in 1..Len(delays) : delays[k] = retry_backoff_seconds * k
    /\ raised.type = "RuntimeError" =>
           /\ attempt = config.retry_attempts
           /\ raised.attempt = config.retry_attempts
    /\ raised.type = "ValueError" <=>
           (runner = "stopped" /\ config.retry_attempts <= 0)
    /\ \A i \in 1..Len(effects) :
           effects[i].op # "xadd_order_book" =>
               CountOf(effects[i].op, effects[i].event) = 1

\* C15 as claimed: the bounded retry, and every step that failed fewer than
\* attempts times has taken effect exactly once: no write of an event is
\* on the store or on a stream twice.
C15_EffectExactlyOnce ==
    /\ RetryLaw
    /\ \A i \in 1..Len(effects) : CountOf(effects[i].op, effects[i].event) = 1

\* C15, amended: the bounded retry; a step that fails fewer than attempts
\* times returns exactly once and has taken effect at least once: the
\* stream entry of a published book is on the stream once or more, at most
\* attempts times, and every other write exactly once.
C15_BoundedRetry ==
    /\ RetryLaw
    /\ \A i \in 1..Len(effects) :
           effects[i].op = "publish_order_book" =>
               CountOf("xadd_order_book", effects[i].event) \in 1..config.retry_attempts

\* A call that failed twice and raised on neither: two sleeps, then a third
\* invocation, after a book whose stream entry was written twice.
C15_Witness ==
    /\ runner = "pumping" /\ attempt = 3
    /\ delays = <<retry_backoff_seconds, 2 * retry_backoff_seconds>>
    /\ \E i \in 1..Len(effects) :
           /\ effects[i].op = "publish_order_book"
           /\ CountOf("xadd_order_book", effects[i].event) = 2

\* C16: after a pump iteration aborts because a step exhausted its retries,
\* the outer driver keeps running: run() is still in its loop, about to
\* sleep the interval and pump again.
C16_DriverKeepsRunning ==
    raised.type = "RuntimeError" => runner \in {"ready", "pumping", "sleeping"}

\* The feeds selected by the pump that is running or was aborted.
Selected == {emissions[i].feed : i \in 1..Len(emissions)}

\* C17: next_due is advanced even when emission fails: when a step of an
\* emission exhausts its retries in the pump at time t, the next_due of the
\* feed (and of every feed selected with it and not emitted yet) is
\* t + update_interval, so the feed is not due again before that time.
C17_NextDueAdvancedOnFailure ==
    raised.type = "RuntimeError" =>
        \A f \in Selected :
            /\ next_emission[f] = Some(pump_timestamp + update_interval(f))
            /\ \A t \in pump_timestamp..(pump_timestamp + update_interval(f) - 1) :
                   ~is_due(next_emission[f], t)

\* The pump at time 2 fails on the first write of the slow feed, which was
\* selected together with the fast one.
C17_Witness ==
    /\ raised.type = "RuntimeError" /\ pump_timestamp = 2
    /\ emissions[1].feed = "EQ-SLOW" /\ call = 1
    /\ next_emission["EQ-SLOW"] = Some(4)

\* s is a prefix of t.
IsPrefix(s, t) == Len(s) <= Len(t) /\ \A i \in 1..Len(s) : s[i] = t[i]

\* C18: no rollback inside a pump: the step in which a call exhausts its
\* retries and the pump aborts leaves every completed write and the book
\* cache as they are, and no step ever removes a completed write; the tick
\* persisted before its publish failed stays persisted, unpublished.
C18_NoRollback ==
    [][/\ IsPrefix(effects, effects')
       /\ runner' = "stopped" /\ runner # "stopped" =>
              /\ effects' = effects
              /\ book_hash' = book_hash
              /\ Current.func = "publish_tick" =>
                     /\ CountOf("persist_tick", Current.arg)' = 1
                     /\ CountOf("publish_tick", Current.arg)' = 0]_vars

\* A pump aborted on the publish of a quote: tick and book stay persisted
\* and published, the quote persisted and not published.
C18_Witness ==
    /\ runner = "stopped" /\ raised.type = "RuntimeError"
    /\ Current.func = "publish_dealer_quote"
    /\ CountOf("persist_dealer_quote", Current.arg) = 1
    /\ CountOf("publish_dealer_quote", Current.arg) = 0
    /\ \E i \in 1..Len(effects) : effects[i].op = "publish_order_book"

\* The ticks of feed f published so far.
TicksPublished(f) ==
    Cardinality({i \in 1..Len(effects) :
                    effects[i].op = "publish_tick" /\ effects[i].event.instrument_id = f})

\* C19: feed scheduling: in a pump at wall time t a feed emits a tick iff
\* its next_due is unset or t >= next_due, and then its next_due becomes
\* t + update_interval (otherwise it is left alone); consecutive ticks of one
\* feed are at least update_interval apart; with intervals of 1 s and 2 s and
\* pumps at t = 0, 1, 2 the tick counts are 3 and 2.
C19_FeedScheduling ==
    [][/\ pumps' # pumps =>
              \A f \in FeedIds :
                  LET emits == \E i \in 1..Len(emissions') :
                                   /\ emissions'[i].feed = f
                                   /\ emissions'[i].event.instrument_id = f
                                   /\ emissions'[i].event.timestamp = wall
                  IN /\ emits <=> (next_emission[f] = None \/ wall >= Get(next_emission[f]))
                     /\ emits => /\ next_emission'[f] = Some(wall + update_interval(f))
                                 /\ simulator'[f] = simulator[f] + 1
                     /\ ~emits => /\ next_emission'[f] = next_emission[f]
                                  /\ simulator'[f] = simulator[f]
       /\ \A i, j \in 1..Len(effects') :
              /\ i < j
              /\ effects'[i].op = "persist_tick" /\ effects'[j].op = "persist_tick"
              /\ effects'[i].event.instrument_id = effects'[j].event.instrument_id
              => effects'[j].event.timestamp - effects'[i].event.timestamp
                     >= update_interval(effects'[i].event.instrument_id)
       /\ pumps' = <<0, 1, 2>> /\ runner' = "sleeping" =>
              /\ TicksPublished("EQ-FAST")' = 3 /\ simulator'["EQ-FAST"] = 3
              /\ TicksPublished("EQ-SLOW")' = 2 /\ simulator'["EQ-SLOW"] = 2]_vars

\* Pumps at 0, 1 and 2 completed: the slow feed was skipped at 1.
C19_Witness ==
    /\ pumps = <<0, 1, 2>> /\ runner = "sleeping"
    /\ next_emission["EQ-SLOW"] = Some(4) /\ next_emission["EQ-FAST"] = Some(3)

\* The snapshots of instrument i whose publish_order_book call returned.
Published(i) ==
    SelectSeq(effects, LAMBDA w : w.op = "publish_order_book" /\ w.event.instrument_id = i)

\* The levels of a snapshot and the levels of a book are the same prices and
\* quantities (a snapshot quantity is in quarters of a unit).
SameLevels(levels, depth) ==
    /\ Len(levels) = Len(depth)
    /\ \A l \in 1..Len(levels) :
           /\ depth[l].price = levels[l].price
           /\ 4 * depth[l].quantity = levels[l].quantity

\* C20: book cache read side: get_order_book(instrument) fails with
\* InstrumentNotFound iff no publish_order_book of that instrument has
\* returned, and otherwise returns the bids, the asks and the time of the
\* latest snapshot whose publish_order_book returned.
C20_ReadsLastPublished ==
    [][book_read' # book_read =>
           LET i == book_read'.instrument_id
               out == book_read'.outcome
               done == Published(i)
           IN /\ out.raised = "InstrumentNotFoundError" <=> done = <<>>
              /\ done # <<>> =>
                     /\ out.raised = "none"
                     /\ SameLevels(done[Len(done)].event.bids, Get(out.book).bids)
                     /\ SameLevels(done[Len(done)].event.asks, Get(out.book).asks)
                     /\ Get(out.book).last_updated = done[Len(done)].event.timestamp]_vars

\* The position of a feed in self.feeds.
FeedIndex(f) == CHOOSE i \in 1..Len(Feeds) : Feeds[i] = f

\* C21: per-feed program order across pumps: the writes of a feed are in
\* the order of its pumps, every call of an emission of an earlier pump has
\* returned when a later pump has started, a pump starts only when no
\* emission is in progress, and within a pump the writes of one feed are
\* all before those of the next feed.
C21_ProgramOrder ==
    /\ \A i, j \in 1..Len(effects) :
           i < j =>
               /\ effects[i].event.timestamp <= effects[j].event.timestamp
               /\ effects[i].event.timestamp = effects[j].event.timestamp =>
                      FeedIndex(effects[i].event.instrument_id)
                          <= FeedIndex(effects[j].event.instrument_id)
    /\ \A i \in 1..Len(effects) :
           /\ effects[i].op = "persist_tick"
           /\ effects[i].event.timestamp < pump_timestamp
           => LET calls == EmissionCalls(config, effects[i].event.instrument_id,
                                         effects[i].event)
              IN \A c \in 1..Len(calls) : CountOf(calls[c].func, calls[c].arg) = 1
    /\ runner = "ready" => emissions = <<>>

\* The second pump is emitting the fast feed after a first pump that emitted
\* both feeds with book and quotes.
C21_Witness ==
    /\ Len(pumps) = 2 /\ runner = "pumping" /\ call = 2
    /\ \E i \in 1..Len(effects) :
           /\ effects[i].op = "publish_dealer_quote"
           /\ effects[i].event.timestamp < pump_timestamp
    /\ \E i \in 1..Len(effects) :
           /\ effects[i].event.instrument_id = "EQ-SLOW"
           /\ effects[i].op = "publish_tick"

\* C22: cancellation of the pump takes effect only between pump iterations:
\* the runner is never cancelled in the middle of an emission or of a retry
\* sequence.
C22_CancelBetweenPumps ==
    runner = "cancelled" => emissions = <<>> /\ attempt = 1 /\ awaiting = "start"

----------------------------------------------------------------------------
(* Properties of the session store and of the auth service *)

\* What the get of POST /orders returned, read off the step that ends it.
Got == IF api'.pc = "get_order_book" THEN api'.session ELSE None

\* C23: from the return of issue on, get of the token returns the session
\* issued (same user_id, same expires_at) until the token is revoked or
\* expires; get returns none exactly when the token was never issued, was
\* revoked, or has expired (now >= expires_at).
C23_SessionLiveness ==
    [][api.pc = "get" /\ api'.pc # "get" =>
          LET k == Get(api.cookie)
              live == /\ IsSome(issued[k])
                      /\ k \notin revoked
                      /\ auth_time < Get(issued[k]).expires_at
          IN /\ IsSome(Got) <=> live
             /\ IsSome(Got) => Get(Got) = Get(issued[k])]_vars

\* The request task h is answered in this step.
Answered(h) == handlers[h].pc # "idle" /\ handlers'[h].pc = "idle"

\* What get returns for token k in this state.
GetNow(k) == session_get(session_keys, k, auth_time)

Normalized(e) == lower(strip(e))

\* The stored user whose email is the normalized form of e, if any.
StoredUser(e) ==
    IF \E i \in 1..Len(user_rows) : user_rows[i].email = Normalized(e)
    THEN Some(user_rows[CHOOSE i \in 1..Len(user_rows) :
                            user_rows[i].email = Normalized(e)])
    ELSE None

\* C25: a register whose email, normalized, is already registered when it is
\* looked up is rejected with UserAlreadyExists, and the request ends there:
\* no user and no account is created, no token is drawn, no session is issued
\* and the stored sessions are as before.
C25_DuplicateRejected ==
    [][\A h \in AuthTasks :
          /\ handlers[h].op = "register" /\ handlers[h].pc = "get_by_email"
          /\ handlers'[h] # handlers[h]
          /\ IsSome(StoredUser(handlers[h].email))
          => /\ Answered(h)
             /\ last'.op = "register" /\ last'.email = handlers[h].email
             /\ last'.raised = "UserAlreadyExistsError" /\ last'.session = None
             /\ UNCHANGED <<user_rows, account_rows, session_keys, issued,
                            tokens_drawn>>]_vars

\* A register of an email that is not in normalized form was rejected as a
\* duplicate while a session was stored.
C25_Witness ==
    /\ last.op = "register" /\ last.raised = "UserAlreadyExistsError"
    /\ last.email # Normalized(last.email)
    /\ IsSome(StoredUser(last.email))
    /\ \E k \in Tokens : IsSome(session_keys[k])

\* C26: a register that succeeds has created one user, then one account for
\* that user (cash = starting_balance, the base currency, margin_allowed =
\* false), and then issues one session for that user's id, in that order; the
\* user and the account are the only rows of that email and of that user.
C26_RegisterCreates ==
    [][\A h \in AuthTasks :
          handlers[h].op = "register" /\ Answered(h) /\ last'.status = 201 =>
             LET rec == handlers[h]
                 session == Get(last'.session)
                 user == Get(StoredUser(rec.email))
                 row == [user_id |-> user.id, cash_balance |-> starting_balance,
                         base_currency |-> base_currency, margin_allowed |-> FALSE]
             IN /\ IsSome(StoredUser(rec.email))
                /\ rec.trace = << <<"create", user>>, <<"create_account", row>> >>
                /\ Cardinality({i \in 1..Len(user_rows) :
                                   user_rows[i].email = user.email}) = 1
                /\ {r \in account_rows : r.user_id = user.id} = {row}
                /\ session.user_id = user.id
                /\ ~IsSome(issued[session.token])
                /\ issued' = [issued EXCEPT ![session.token] = Some(session)]
                /\ UNCHANGED <<user_rows, account_rows>>]_vars

\* A register of a new email was answered with a session, next to the user
\* created at startup.
C26_Witness ==
    /\ last.op = "register" /\ last.status = 201
    /\ Len(user_rows) = 2
    /\ Get(last.session).user_id = 2
    /\ \E r \in account_rows : r.user_id = 2

\* C27: a login of an unknown email and a login with a wrong password raise
\* the same InvalidCredentials error and issue no session; a login that
\* succeeds issues one session, for the stored user's id, under a token that
\* no earlier session had.
C27_LoginOutcome ==
    [][\A h \in AuthTasks :
          handlers[h].op = "login" /\ Answered(h) =>
             LET rec == handlers[h]
                 user == StoredUser(rec.email)
             IN IF ~IsSome(user) \/ ~verify(Get(user).password_hash, rec.password)
                THEN /\ last'.raised = "InvalidCredentialsError"
                     /\ last'.status = 401 /\ last'.session = None
                     /\ UNCHANGED <<session_keys, issued, tokens_drawn>>
                ELSE /\ last'.raised = "none" /\ last'.status = 200
                     /\ Get(last'.session).user_id = Get(user).id
                     /\ ~IsSome(issued[Get(last'.session).token])
                     /\ Get(last'.session).token \notin revoked
                     /\ issued' = [issued EXCEPT ![Get(last'.session).token] =
                                                     last'.session]]_vars

\* A login with the wrong password of a registered email was refused after
\* a login of that email had been given a session.
C27_Witness ==
    /\ last.op = "login" /\ last.raised = "InvalidCredentialsError"
    /\ IsSome(StoredUser(last.email))
    /\ \E k \in Tokens : IsSome(issued[k])
                         /\ Get(issued[k]).user_id = Get(StoredUser(last.email)).id

----------------------------------------------------------------------------
(* Properties of POST /orders *)

\* POST /orders is entered in this step.
Entered == api.pc \in {"idle", "done"} /\ api' # api

\* C28: every POST /orders with a well-formed order, with or without a
\* user_id field in its body, that resolves a session and finds the book of
\* its instrument hands the order service an order whose user_id is the
\* session's: the field of the body plays no part.
C28_AttributedToSession ==
    [][/\ /\ Entered /\ IsSome(api'.cookie)
          /\ IsSome(GetNow(Get(api'.cookie)))
          => api'.status # 422
       /\ /\ api.pc = "get_order_book" /\ api' # api
          /\ get_order_book(book_hash, api.body.instrument_id).raised = "none"
          => /\ api'.pc = "submit"
             /\ IsSome(api'.submitted)
             /\ Get(api'.submitted).user_id = Get(api.session).user_id]_vars

\* C29: a POST /orders without a session cookie, or with a token for which
\* get returns none, is answered 401 at once: the book cache and the order
\* service are not reached and no order, account, position or execution
\* event changes.
C29_UnauthenticatedRejected ==
    [][/\ Entered /\ ~IsSome(api'.cookie) =>
             api'.pc = "done" /\ api'.status = 401
       /\ api.pc = "get" /\ api' # api /\ ~IsSome(GetNow(Get(api.cookie))) =>
             api'.pc = "done" /\ api'.status = 401
       /\ api' # api /\ api'.status = 401 =>
             UNCHANGED <<orders, accounts, positions, executions, book_read>>]_vars

----------------------------------------------------------------------------
(* Properties of the order book generator, under SpecLadder *)

\* C30: for every mid price > 0 and every noise draw, build returns a
\* snapshot whose bid prices are strictly descending, whose ask prices are
\* strictly ascending and whose best bid is strictly below its best ask.
C30_LadderSorted ==
    ladder.pc = "built" /\ ladder.mid_price > 0 =>
        LET bids == ladder.built.bids
            asks == ladder.built.asks
        IN /\ ladder.built.raised = "none"
           /\ \A i \in 1..(Len(bids) - 1) : bids[i].price > bids[i + 1].price
           /\ \A i \in 1..(Len(asks) - 1) : asks[i].price < asks[i + 1].price
           /\ bids[1].price < asks[1].price

(***************************************************************************)
(* C31.  Simulator determinism: two instances built with the same integer  *)
(* seed and the same parameters return the same values call for call, and  *)
(* what an instance returns after reset() repeats what it returned from    *)
(* construction.                                                           *)
(***************************************************************************)
Agree(p, q) ==
    \A k \in 1..Min(Len(p), Len(q)) : p[k] = q[k]

C31_SimulatorDeterminism ==
    \A i, j \in Instances :
        (instances[i].built /\ instances[j].built /\ IsSome(instances[i].sim.seed)) =>
            /\ Agree(instances[i].path, instances[j].path)
            /\ Agree(instances[i].path, instances[j].original)
            /\ Agree(instances[i].original, instances[j].original)

C31_Witness ==
    /\ instances[1].built /\ IsSome(instances[1].sim.seed)
    /\ instances[1].sim.parameters.volatility > 0
    /\ instances[1].resets = 1
    /\ Len(instances[1].original) = MaxSteps - 1
    /\ Len(instances[1].path) = MaxSteps
    /\ Len(instances[2].path) = MaxSteps
    /\ instances[1].path[1] # instances[1].path[2]

(***************************************************************************)
(* C32.  Order persistence is insert-idempotent on order_id: create_order  *)
(* for an order_id the table holds changes only filled_quantity,           *)
(* average_price, status and updated_at of that row and keeps its other    *)
(* columns and every other row; persisting the record persisted last       *)
(* leaves the table as it is.                                              *)
(***************************************************************************)
KeptColumns ==
    {"order_id", "user_id", "instrument_id", "side", "order_type", "quantity",
     "limit_price", "time_in_force", "created_at"}
UpdatedColumns == {"filled_quantity", "average_price", "status", "updated_at"}

C32_InsertIdempotent ==
    [][LET order == Get(orders_table'.latest)
           held == orders_table.rows[order.order_id]
           row == Get(orders_table'.rows[order.order_id])
       IN /\ \A id \in Tasks \ {order.order_id} :
                 orders_table'.rows[id] = orders_table.rows[id]
          /\ IsSome(orders_table'.rows[order.order_id])
          /\ \A c \in UpdatedColumns : row[c] = order[c]
          /\ \A c \in KeptColumns :
                 row[c] = IF IsSome(held) THEN Get(held)[c] ELSE order[c]
          /\ (orders_table.latest = Some(order) =>
                 orders_table'.rows = orders_table.rows)]_vars

\* An order_id is persisted again with other columns than first inserted.
C32_Witness ==
    /\ IsSome(orders_table.latest)
    /\ LET order == Get(orders_table.latest)
           row == Get(orders_table.rows[order.order_id])
       IN /\ row.user_id # order.user_id
          /\ row.created_at # order.created_at
          /\ row.filled_quantity = order.filled_quantity
          /\ row.filled_quantity = 2
          /\ row.updated_at = order.updated_at

(***************************************************************************)
(* C33.  Every order record submit persists has 0 <= filled_quantity <=    *)
(* quantity, an average_price iff something was filled (then the           *)
(* consideration divided by the filled quantity), a limit_price iff it is  *)
(* a LIMIT order, and created_at = updated_at = the clock value submit     *)
(* read when it was entered; the row committed is that record.             *)
(***************************************************************************)
C33_OrderRecordInvariants ==
    [][\A t \in Tasks :
          /\ (pc[t] = "idle" /\ pc'[t] # "idle") => now'[t] = clock
          /\ (~IsSome(writes[t].order) /\ IsSome(writes'[t].order)) =>
                LET o == Get(writes'[t].order)
                IN /\ 0 <= o.filled_quantity /\ o.filled_quantity <= o.quantity
                   /\ o.quantity = request[t].quantity
                   /\ o.filled_quantity = SumSeq([i \in 1..Len(Fills(t)) |-> Fills(t)[i].quantity], 1)
                   /\ IsSome(o.average_price) <=> o.filled_quantity > 0
                   /\ o.filled_quantity > 0 =>
                         Get(o.average_price) = Frac(Consideration(t), o.filled_quantity)
                   /\ IsSome(o.limit_price) <=> o.order_type = "LIMIT"
                   /\ o.created_at = now[t] /\ o.updated_at = now[t]
          /\ orders'[t] # orders[t] =>
                /\ ~IsSome(orders[t])
                /\ orders'[t] = writes[t].order]_vars

\* An unfilled LIMIT order and a filled MARKET order are both committed.
C33_Witness ==
    \E t, s \in Tasks :
        /\ IsSome(orders[t]) /\ IsSome(orders[s])
        /\ Get(orders[t]).order_type = "LIMIT"
        /\ Get(orders[t]).filled_quantity = 0
        /\ ~IsSome(Get(orders[t]).average_price)
        /\ Get(orders[s]).order_type = "MARKET"
        /\ Get(orders[s]).filled_quantity > 0
        /\ Get(orders[s]).created_at # Get(orders[t]).created_at

(***************************************************************************)
(* C34.  Position average price: a BUY with fills writes average_price =   *)
(* (prior_qty * prior_avg + consideration) / new_qty, with prior_qty = 0   *)
(* when no row existed; a SELL with fills writes the prior average_price,  *)
(* also when the quantity becomes 0, and the row is kept.  The prior       *)
(* position is the row submit read.                                        *)
(***************************************************************************)
C34_PositionAveragePrice ==
    [][\A t \in Tasks :
          LET k == <<request[t].user_id, request[t].instrument_id>>
              prior == existing_position[t]
              prior_qty == IF IsSome(prior) THEN Get(prior).quantity ELSE 0
              prior_avg == IF IsSome(prior) THEN Get(prior).average_price ELSE <<0, 1>>
          IN /\ (~IsSome(writes[t].position) /\ IsSome(writes'[t].position)) =>
                   LET written == Get(writes'[t].position)
                   IN /\ Filled(t) > 0
                      /\ request[t].side = "BUY" =>
                            /\ written.quantity = prior_qty + Filled(t)
                            /\ written.average_price[1] * prior_avg[2] * written.quantity =
                                  written.average_price[2] *
                                     (prior_qty * prior_avg[1] + Consideration(t) * prior_avg[2])
                      /\ request[t].side = "SELL" =>
                            /\ written.quantity = prior_qty - Filled(t)
                            /\ written.average_price = prior_avg
             /\ (pc[t] = "commit" /\ positions'[k] # positions[k]) =>
                   /\ positions'[k] = writes[t].position
                   /\ IsSome(positions'[k])]_vars

\* A SELL left a position flat and a BUY averaged into an existing position.
C34_Witness ==
    /\ \E k \in PositionKeys :
          /\ IsSome(positions[k]) /\ Get(positions[k]).quantity = 0
          /\ Get(positions[k]).average_price = <<2, 1>>
    /\ \E t \in Tasks :
          /\ IsSome(orders[t]) /\ Get(orders[t]).side = "BUY"
          /\ Get(orders[t]).filled_quantity > 0

(***************************************************************************)
(* C35.  run(iterations = n) with pumps that do not raise calls pump_once  *)
(* exactly n times, one call at a time, sleeps the configured interval     *)
(* once after each pump, and then returns.                                 *)
(***************************************************************************)
C35_BoundedRun ==
    /\ [](IsSome(run.iterations) =>
             LET n == Get(run.iterations)
             IN /\ run.calls <= n
                /\ run.active <= 1
                /\ run.active = 1 <=> run.pc = "pumping"
                /\ Len(run.intervals) = IF run.pc \in {"pumping", "sleep"}
                                        THEN run.calls - 1 ELSE run.calls
                /\ \A i \in 1..Len(run.intervals) : run.intervals[i] = run.interval
                /\ run.pc = "returned" =>
                      run.calls = n /\ Len(run.intervals) = n /\ run.active = 0)
    /\ (IsSome(run.iterations) => <>(run.pc = "returned"))

C35_Witness ==
    /\ run.iterations = Some(MaxIterations) /\ run.pc = "returned"
    /\ run.calls = MaxIterations /\ run.interval = 2
    /\ run.intervals = [i \in 1..MaxIterations |-> 2]

(***************************************************************************)
(* C36.  A feed that was due at a pump and whose emission was not          *)
(* attempted, because an earlier feed of the pump exhausted its retries,   *)
(* is left as it was: its next_due is not advanced, so it is due again at  *)
(* any later pump, and its simulator has not moved, so the tick it would   *)
(* emit is the one that was not sent.                                      *)
(***************************************************************************)
C36_UnattemptedStaysDue ==
    (runner = "stopped" /\ raised.type = "RuntimeError") =>
        \A i \in 2..Len(emissions) :
            LET f == emissions[i].feed
            IN /\ is_due(next_emission[f], pump_timestamp)
               /\ next_tick(f, pump_timestamp, simulator[f]) = emissions[i].event

(***************************************************************************)
(* C37.  When every persist and publish succeeds, pump_once completes      *)
(* without error whatever the simulator returns, rates <= 0 of the         *)
(* mean-reverting simulator included: no generator is called with a mid    *)
(* it rejects.                                                             *)
(***************************************************************************)
C37_PumpNeverRejected ==
    rate_feed.raised = "none"

(***************************************************************************)
(* C38.  Every book cache entry the publisher wrote can be read back:      *)
(* get_order_book of an instrument whose entry exists returns a book with  *)
(* as many levels per side as the entry, the same prices in the same       *)
(* order and quantities of at least 1; the only error it ever raises is    *)
(* InstrumentNotFound, for an instrument without an entry.                 *)
(***************************************************************************)
C38_CacheReadable ==
    [][book_read' # book_read =>
           LET i == book_read'.instrument_id
               out == book_read'.outcome
           IN /\ out.raised \in {"none", "InstrumentNotFoundError"}
              /\ out.raised = "InstrumentNotFoundError" <=> ~IsSome(book_hash[i])
              /\ out.raised = "none" =>
                    LET entry == Get(book_hash[i])
                        book == Get(out.book)
                        same(cached, levels) ==
                            /\ Len(levels) = Len(cached)
                            /\ \A l \in 1..Len(levels) :
                                   /\ levels[l].price = cached[l][1]
                                   /\ levels[l].quantity >= 1
                    IN /\ same(json_loads(entry.bids), book.bids)
                       /\ same(json_loads(entry.asks), book.asks)]_vars

(***************************************************************************)
(* C40.  Concurrent register calls with the same normalized email leave    *)
(* one user, one account and one session, and every call that finds the    *)
(* email taken, at the existence check or at the insert, is rejected with  *)
(* UserAlreadyExists and answered 409.                                     *)
(***************************************************************************)
C40_ConcurrentRegister ==
    /\ \A i, j \in 1..Len(user_rows) :
           user_rows[i].email = user_rows[j].email => i = j
    /\ \A a, b \in account_rows : a.user_id = b.user_id => a = b
    /\ (last.op = "register"
        /\ last.raised \in {"UserAlreadyExistsError", "UniqueViolationError"}) =>
           /\ last.raised = "UserAlreadyExistsError"
           /\ last.status = 409

(***************************************************************************)
(* C39.  Each registered user has exactly one account once the register    *)
(* call that created it has ended, however it ended: the user row and the  *)
(* account row are created together or not at all, so a user who logs in   *)
(* has the account row that submit looks up.                               *)
(***************************************************************************)
Registering(user_id) ==
    \E h \in AuthTasks :
        /\ handlers[h].op = "register"
        /\ IsSome(handlers[h].user)
        /\ Get(handlers[h].user).id = user_id

AccountsOf(user_id) == {a \in account_rows : a.user_id = user_id}

C39_UserHasAccount ==
    /\ \A i \in 1..Len(user_rows) :
           ~Registering(user_rows[i].id) =>
               Cardinality(AccountsOf(user_rows[i].id)) = 1
    /\ (last.op = "login" /\ last.status = 200) =>
           \/ Registering(Get(last.session).user_id)
           \/ AccountsOf(Get(last.session).user_id) # {}

====
